---------------------------- MODULE Spec2Model ----------------------------
(***************************************************************************)
(* saas-core: verification of bearer tokens (RS256 JWTs) against the key   *)
(* set of the identity provider.                                           *)
(*                                                                         *)
(* State: the module globals _key_cache (saas_core/auth.py) and _config    *)
(* (saas_core/config.py), the process environment the configuration is     *)
(* loaded from, the provider's published certificates, the behaviour of    *)
(* the key endpoint, and the clock.  One action per public operation:      *)
(* verify_user, get_google_public_keys, get_config, reset_config.          *)
(*                                                                         *)
(* Optional values (Python None / an absent claim / an empty dict) are     *)
(* sequences of length 0; a present value v is <<v>>.                      *)
(***************************************************************************)
EXTENDS Integers, Sequences, FiniteSets, TLC

VARIABLES
    authConfigAttrs, \* the attribute names class AuthConfig provides
    env,             \* os.environ, the SAAS_CORE_* variables
    _config,         \* config.py: _config (None or the loaded AuthConfig)
    _key_cache,      \* auth.py: _key_cache (empty or the one cached entry)
    published,       \* the provider's current certificates: kid -> cert
    endpoint,        \* how the key endpoint answers a GET right now
    now,             \* time.time()
    last,            \* the most recent call and what it returned or raised
    threads          \* the calls in progress, one per thread, statement by statement

vars ==
    <<authConfigAttrs, env, _config, _key_cache, published, endpoint, now, last,
      threads>>

----------------------------------------------------------------------------
(* Bounds *)

MaxTime == 3

JwksCacheTtl == 2

JwtLeeway == 1

----------------------------------------------------------------------------
(* Optional values *)

None == <<>>

Some(v) == <<v>>

IsNone(o) == o = <<>>

Get(o) == o[1]

----------------------------------------------------------------------------
(* Exceptions (saas_core/exceptions.py) and the others that can escape *)

AuthenticationError == "AuthenticationError"

EmailNotVerifiedError == "EmailNotVerifiedError"

ConfigurationError == "ConfigurationError"

\* EmailNotVerifiedError derives from AuthenticationError: `except
\* AuthenticationError` catches both.
IsAuthenticationError(kind) == kind \in {AuthenticationError, EmailNotVerifiedError}

\* auth.py line 50
FetchFailedMsg == "Failed to fetch Google public keys"

\* auth.py lines 176-178
KeyNotFoundMsg == "Public key with ID not found in Google's JWKS"

NoRecord ==
    [uid |-> "", email |-> "", email_verified |-> FALSE,
     email_verified_text |-> None, auth_time |-> None]

Raise(kind, msg) == [kind |-> kind, msg |-> msg, record |-> NoRecord]

Return(rec) == [kind |-> "record", msg |-> "", record |-> rec]

----------------------------------------------------------------------------
(* Configuration (saas_core/config.py) *)

\* The fields class AuthConfig declares.
AuthConfigFields ==
    {"firebase_credentials_path", "firebase_credentials_json",
     "google_project_id", "require_email_verified"}

\* The attributes saas_core/auth.py reads from the configuration.
AuthReadAttrs ==
    {"jwks_cache_ttl", "GOOGLE_JWKS_ENDPOINT", "issuer_url", "audience",
     "jwt_leeway", "require_email_verified"}

\* The attributes the tests and auth.py expect of AuthConfig in addition to
\* its declared fields.
DeclaredByTests == AuthConfigFields \cup AuthReadAttrs

HasAttr(attrs, name) == name \in attrs

Lower(s) ==
    CASE s = "True" -> "true"
      [] s = "TRUE" -> "true"
      [] s = "False" -> "false"
      [] s = "Yes" -> "yes"
      [] s = "No" -> "no"
      [] s = "On" -> "on"
      [] s = "ON" -> "on"
      [] s = "Off" -> "off"
      [] OTHER -> s

\* The values parse_boolean is given: a string from the environment, or a
\* bool passed to the constructor.
StrValue(s) == [type |-> "str", str |-> s, bool |-> FALSE]

BoolValue(b) == [type |-> "bool", str |-> "", bool |-> b]

\* Line 65, were the string compared without lower().
parse_boolean_case_sensitive(v) ==
    IF v.type = "bool" THEN v.bool
    ELSE v.str \in {"true", "1", "yes", "on"}

\* AuthConfig.parse_boolean (config.py lines 62-65).
parse_boolean(v) ==
    IF v.type = "bool" THEN v.bool
    ELSE Lower(v.str) \in {"true", "1", "yes", "on"}

ValidJsonStrings == {"{\"type\": \"service_account\"}"}

\* AuthConfig.parse_json_string: TRUE when the validator accepts v.
parse_json_string(v) == IsNone(v) \/ Get(v) \in ValidJsonStrings

\* Python truthiness of an Optional[str].
Truthy(o) == ~IsNone(o) /\ Get(o) # ""

\* model_post_init, were more than one credential source refused as well.
model_post_init_raises_unless_one(e) ==
    Cardinality({f \in {"firebase_credentials_path", "firebase_credentials_json",
                        "google_project_id"} : Truthy(e[f])}) # 1

\* AuthConfig.model_post_init: TRUE when it raises ConfigurationError.
model_post_init_raises(e) ==
    /\ ~Truthy(e.firebase_credentials_path)
    /\ ~Truthy(e.firebase_credentials_json)
    /\ ~Truthy(e.google_project_id)

\* AuthConfig(): the instance built from the environment e, or None when
\* construction raises (validation error or ConfigurationError).
AuthConfig(e) ==
    IF ~parse_json_string(e.firebase_credentials_json) \/ model_post_init_raises(e)
    THEN None
    ELSE Some([firebase_credentials_path |-> e.firebase_credentials_path,
               firebase_credentials_json |-> e.firebase_credentials_json,
               google_project_id |-> e.google_project_id,
               require_email_verified |->
                   IF IsNone(e.require_email_verified) THEN TRUE
                   ELSE parse_boolean(StrValue(Get(e.require_email_verified)))])

\* get_config, were the configuration constructed anew on every call.
get_config_always_reloads(c, e) ==
    [config |-> AuthConfig(e), ok |-> ~IsNone(AuthConfig(e))]

\* get_config(): [config |-> the new value of _config, ok |-> it returned].
\* When not ok it raised ConfigurationError and _config stays None.
get_config(c, e) ==
    IF ~IsNone(c) THEN [config |-> c, ok |-> TRUE]
    ELSE [config |-> AuthConfig(e), ok |-> ~IsNone(AuthConfig(e))]

IssuerPrefix == "https://securetoken.google.com/"

\* config.issuer_url, as the tests construct it.
issuer_url(cfg) == <<IssuerPrefix, Get(cfg.google_project_id)>>

\* config.audience: the project id (no custom audience in the environment).
audience(cfg) == Get(cfg.google_project_id)

\* config.jwks_cache_ttl
jwks_cache_ttl(cfg) == JwksCacheTtl

\* config.jwt_leeway
jwt_leeway(cfg) == JwtLeeway

----------------------------------------------------------------------------
(* Keys and certificates *)

\* RSA key pairs, named by their private key; "M" is never certified.
KeyPairs == {"A", "B", "M"}

Malformed == "malformed"

\* What the endpoint publishes: kid -> the key pair a certificate is for, or
\* a malformed entry.
ProviderSets ==
    { [k \in {"k1"} |-> "A"],
      [k \in {"k2"} |-> "B"],
      [k \in {"k1", "k2"} |-> IF k = "k1" THEN "A" ELSE Malformed] }

\* Lines 52-68, were an entry that does not load kept under its id.
ParseCerts_keeping_malformed(certs_dict) == certs_dict

\* auth.py lines 52-68: the certificates that load, as kid -> public key.
ParseCerts(certs_dict) ==
    [k \in {j \in DOMAIN certs_dict : certs_dict[j] # Malformed} |-> certs_dict[k]]

Responses == {"ok", "http_error", "not_json"}

----------------------------------------------------------------------------
(* Key store (saas_core/auth.py, get_google_public_keys) *)

EmptyKeys == [k \in {} |-> "A"]

\* The cache check, were the TTL never consulted.
CacheHit_ignoring_ttl(cache, t, ttl) == ~IsNone(cache)

\* The cache check, were the comparison the wrong way round.
CacheHit_inverted(cache, t, ttl) ==
    ~IsNone(cache) /\ t - Get(cache).timestamp > ttl

\* The cache check, were an entry of age TTL still served.
CacheHit_inclusive(cache, t, ttl) ==
    ~IsNone(cache) /\ t - Get(cache).timestamp <= ttl

\* auth.py lines 38-40: the cache check of get_google_public_keys.
CacheHit(cache, t, ttl) ==
    ~IsNone(cache) /\ t - Get(cache).timestamp < ttl

\* The cache as a call finds it: empty, within its TTL, or past it.
CacheState(cache, t, ttl) ==
    IF IsNone(cache) THEN "empty"
    ELSE IF t - Get(cache).timestamp < ttl THEN "fresh"
    ELSE "expired"

KeysResult(c, cache, exc, keys, fetches, keyAge) ==
    [config |-> c, cache |-> cache, exc |-> exc, keys |-> keys,
     fetches |-> fetches, keyAge |-> keyAge]

\* Lines 43-76, were a response without a usable key reported as a failed fetch.
FetchKeys_refusing_empty(c, cache, certs, resp, t) ==
    IF resp = "http_error" \/ (resp = "ok" /\ DOMAIN ParseCerts(certs) = {})
    THEN KeysResult(c, cache, Some(Raise(AuthenticationError, FetchFailedMsg)),
                    EmptyKeys, 1, -1)
    ELSE IF resp = "not_json"
    THEN KeysResult(c, cache, Some(Raise("JSONDecodeError", "response.json()")),
                    EmptyKeys, 1, -1)
    ELSE KeysResult(c, Some([keys |-> ParseCerts(certs), timestamp |-> t]),
                    None, ParseCerts(certs), 1, 0)

\* Lines 43-76, were a failed request treated as an empty key set.
FetchKeys_swallowing_errors(c, cache, certs, resp, t) ==
    IF resp = "http_error"
    THEN KeysResult(c, Some([keys |-> EmptyKeys, timestamp |-> t]), None,
                    EmptyKeys, 1, 0)
    ELSE IF resp = "not_json"
    THEN KeysResult(c, cache, Some(Raise("JSONDecodeError", "response.json()")),
                    EmptyKeys, 1, -1)
    ELSE KeysResult(c, Some([keys |-> ParseCerts(certs), timestamp |-> t]),
                    None, ParseCerts(certs), 1, 0)

\* auth.py lines 43-76: the GET of the key endpoint, the conversion of the
\* certificates and the replacement of the cache entry.  A failed request
\* raises AuthenticationError; a 2xx body that is not JSON makes
\* response.json() raise, which nothing catches.
FetchKeys(c, cache, certs, resp, t) ==
    IF resp = "http_error"
    THEN KeysResult(c, cache, Some(Raise(AuthenticationError, FetchFailedMsg)),
                    EmptyKeys, 1, -1)
    ELSE IF resp = "not_json"
    THEN KeysResult(c, cache, Some(Raise("JSONDecodeError", "response.json()")),
                    EmptyKeys, 1, -1)
    ELSE KeysResult(c, Some([keys |-> ParseCerts(certs), timestamp |-> t]),
                    None, ParseCerts(certs), 1, 0)

\* get_google_public_keys() called with _config = c, os.environ = e,
\* _key_cache = cache, while the provider publishes certs, the endpoint
\* answers resp and the clock reads t.  exc is None when it returns keys.
get_google_public_keys(attrs, c, e, cache, certs, resp, t) ==
    LET g == get_config(c, e) IN
    IF ~g.ok
    THEN KeysResult(g.config, cache,
                    Some(Raise(ConfigurationError, "Failed to load configuration")),
                    EmptyKeys, 0, -1)
    ELSE IF ~HasAttr(attrs, "jwks_cache_ttl")
    THEN KeysResult(g.config, cache,
                    Some(Raise("AttributeError", "jwks_cache_ttl")),
                    EmptyKeys, 0, -1)
    ELSE IF CacheHit(cache, t, jwks_cache_ttl(Get(g.config)))
    THEN KeysResult(g.config, cache, None, Get(cache).keys, 0,
                    t - Get(cache).timestamp)
    ELSE IF ~HasAttr(attrs, "GOOGLE_JWKS_ENDPOINT")
    THEN KeysResult(g.config, cache,
                    Some(Raise("AttributeError", "GOOGLE_JWKS_ENDPOINT")),
                    EmptyKeys, 0, -1)
    ELSE FetchKeys(g.config, cache, certs, resp, t)

----------------------------------------------------------------------------
(* Tokens *)

FarFuture == MaxTime + JwtLeeway + 1

Issuer(project) == <<IssuerPrefix, project>>

\* A well-formed token for project p1, with header kid and signed with the
\* private key of pair signer.  email_verified is the claim when it is a JSON
\* boolean; email_verified_text is the claim when it is a JSON string.
ValidToken(kid, signer) ==
    [form |-> "jwt", kid |-> Some(kid), alg |-> "RS256", signer |-> signer,
     iss |-> Some(Issuer("p1")), aud |-> Some("p1"),
     exp |-> Some(FarFuture), iat |-> Some(0), nbf |-> None,
     sub |-> Some("u1"), email |-> Some("a@b.com"),
     email_verified |-> Some(TRUE), email_verified_text |-> None,
     auth_time |-> None]

\* Inputs that are not a JWT with a header: None, "", "not.a.valid.jwt.token".
NonJwt(form) == [ValidToken("k1", "A") EXCEPT !.form = form, !.kid = None]

\* The tokens that differ from t in one header field or claim.
Variants(t) ==
    {[t EXCEPT !.kid = None],
     [t EXCEPT !.alg = "HS256"],
     [t EXCEPT !.signer = "M"],
     [t EXCEPT !.iss = Some(<<"https://invalid-issuer.com", "">>)],
     [t EXCEPT !.aud = Some("invalid-audience")],
     [t EXCEPT !.exp = None],
     [t EXCEPT !.exp = Some(1)],
     [t EXCEPT !.sub = None],
     [t EXCEPT !.email = Some("")],
     [t EXCEPT !.email_verified = None],
     [t EXCEPT !.email_verified = Some(FALSE)],
     [t EXCEPT !.auth_time = Some(0)]}

\* The tokens that differ from t in a timing claim, or in two claims at once.
Combined(t) ==
    {[t EXCEPT !.nbf = Some(FarFuture)],
     [t EXCEPT !.iat = Some(FarFuture),
               !.iss = Some(<<"https://invalid-issuer.com", "">>)],
     [t EXCEPT !.iss = Some(<<"https://invalid-issuer.com", "">>),
               !.exp = Some(1)],
     [t EXCEPT !.iss = Some(<<"https://invalid-issuer.com", "">>),
               !.aud = Some("invalid-audience")],
     [t EXCEPT !.exp = Some(1), !.sub = None],
     [t EXCEPT !.sub = Some(""), !.email = None],
     [t EXCEPT !.email = None, !.email_verified = Some(FALSE)]}

\* The tokens callers present: non-strings and non-JWTs, well-formed tokens
\* under each kid, deviations of a well-formed token in one or two fields,
\* and forged tokens (signed with the uncertified key M) with a deviating payload.
Tokens ==
    {NonJwt("not_str"), NonJwt("empty"), NonJwt("garbage")}
        \cup {ValidToken("k1", "A"), ValidToken("k2", "B"), ValidToken("kx", "M")}
        \cup Variants(ValidToken("k1", "A"))
        \cup Combined(ValidToken("k1", "A"))
        \cup {[ValidToken("k1", "M") EXCEPT !.exp = None],
              [ValidToken("k1", "M") EXCEPT !.aud = Some("invalid-audience")]}

----------------------------------------------------------------------------
(* Token verification (saas_core/auth.py, verify_user) *)

\* _decode_token_header: TRUE when jwt.get_unverified_header raises
\* DecodeError, which becomes AuthenticationError("Invalid token format").
_decode_token_header_raises(token) == token.form # "jwt"

\* jwt.decode, were the claims validated before the signature is checked.
jwt_decode_claims_first(token, key, issuer, aud, leeway, t) ==
    IF ~IsNone(token.iat) /\ Get(token.iat) > t + leeway
    THEN "ImmatureSignatureError(iat)"
    ELSE IF ~IsNone(token.nbf) /\ Get(token.nbf) > t + leeway
    THEN "ImmatureSignatureError(nbf)"
    ELSE IF ~IsNone(token.exp) /\ Get(token.exp) <= t - leeway
    THEN "ExpiredSignatureError"
    ELSE IF IsNone(token.iss) THEN "MissingRequiredClaimError(iss)"
    ELSE IF Get(token.iss) # issuer THEN "InvalidIssuerError"
    ELSE IF IsNone(token.aud) THEN "MissingRequiredClaimError(aud)"
    ELSE IF Get(token.aud) # aud THEN "InvalidAudienceError"
    ELSE IF token.alg # "RS256" THEN "InvalidAlgorithmError"
    ELSE IF token.signer # key THEN "InvalidSignatureError"
    ELSE "ok"

\* jwt.decode, were issuer and audience validated before the timing claims.
jwt_decode_issuer_first(token, key, issuer, aud, leeway, t) ==
    IF token.alg # "RS256" THEN "InvalidAlgorithmError"
    ELSE IF token.signer # key THEN "InvalidSignatureError"
    ELSE IF IsNone(token.iss) THEN "MissingRequiredClaimError(iss)"
    ELSE IF Get(token.iss) # issuer THEN "InvalidIssuerError"
    ELSE IF IsNone(token.aud) THEN "MissingRequiredClaimError(aud)"
    ELSE IF Get(token.aud) # aud THEN "InvalidAudienceError"
    ELSE IF ~IsNone(token.exp) /\ Get(token.exp) <= t - leeway
    THEN "ExpiredSignatureError"
    ELSE IF ~IsNone(token.iat) /\ Get(token.iat) > t + leeway
    THEN "ImmatureSignatureError(iat)"
    ELSE IF ~IsNone(token.nbf) /\ Get(token.nbf) > t + leeway
    THEN "ImmatureSignatureError(nbf)"
    ELSE "ok"

\* jwt.decode, were a token still accepted at the instant exp + leeway.
jwt_decode_exp_inclusive(token, key, issuer, aud, leeway, t) ==
    IF token.alg # "RS256" THEN "InvalidAlgorithmError"
    ELSE IF token.signer # key THEN "InvalidSignatureError"
    ELSE IF ~IsNone(token.iat) /\ Get(token.iat) > t + leeway
    THEN "ImmatureSignatureError(iat)"
    ELSE IF ~IsNone(token.nbf) /\ Get(token.nbf) > t + leeway
    THEN "ImmatureSignatureError(nbf)"
    ELSE IF ~IsNone(token.exp) /\ Get(token.exp) < t - leeway
    THEN "ExpiredSignatureError"
    ELSE IF IsNone(token.iss) THEN "MissingRequiredClaimError(iss)"
    ELSE IF Get(token.iss) # issuer THEN "InvalidIssuerError"
    ELSE IF IsNone(token.aud) THEN "MissingRequiredClaimError(aud)"
    ELSE IF Get(token.aud) # aud THEN "InvalidAudienceError"
    ELSE "ok"

\* jwt.decode(token, key, algorithms=["RS256"], issuer=, audience=, leeway=)
\* at time t: "ok", or the name of the exception PyJWT raises.  The signature
\* is checked first; then iat, nbf and exp where the claim is present; then
\* iss and aud, which must be present.
jwt_decode(token, key, issuer, aud, leeway, t) ==
    IF token.alg # "RS256" THEN "InvalidAlgorithmError"
    ELSE IF token.signer # key THEN "InvalidSignatureError"
    ELSE IF ~IsNone(token.iat) /\ Get(token.iat) > t + leeway
    THEN "ImmatureSignatureError(iat)"
    ELSE IF ~IsNone(token.nbf) /\ Get(token.nbf) > t + leeway
    THEN "ImmatureSignatureError(nbf)"
    ELSE IF ~IsNone(token.exp) /\ Get(token.exp) <= t - leeway
    THEN "ExpiredSignatureError"
    ELSE IF IsNone(token.iss) THEN "MissingRequiredClaimError(iss)"
    ELSE IF Get(token.iss) # issuer THEN "InvalidIssuerError"
    ELSE IF IsNone(token.aud) THEN "MissingRequiredClaimError(aud)"
    ELSE IF Get(token.aud) # aud THEN "InvalidAudienceError"
    ELSE "ok"

\* Lines 190-199, were a wrong audience reported with the issuer message.
DecodeErrorMessage_audience_as_issuer(exc) ==
    CASE exc = "ExpiredSignatureError" -> "Token has expired"
      [] exc = "InvalidIssuerError" -> "Token issuer is invalid"
      [] exc = "InvalidAudienceError" -> "Token issuer is invalid"
      [] exc = "InvalidSignatureError" -> "Token signature is invalid"
      [] exc = "InvalidAlgorithmError" ->
            "Token validation failed: The specified alg value is not allowed"
      [] exc = "ImmatureSignatureError(iat)" ->
            "Token validation failed: The token is not yet valid (iat)"
      [] exc = "ImmatureSignatureError(nbf)" ->
            "Token validation failed: The token is not yet valid (nbf)"
      [] exc = "MissingRequiredClaimError(iss)" ->
            "Token validation failed: Token is missing the \"iss\" claim"
      [] exc = "MissingRequiredClaimError(aud)" ->
            "Token validation failed: Token is missing the \"aud\" claim"
      [] OTHER -> "Token validation failed"

\* auth.py lines 190-199: the except clauses around jwt.decode.
DecodeErrorMessage(exc) ==
    CASE exc = "ExpiredSignatureError" -> "Token has expired"
      [] exc = "InvalidIssuerError" -> "Token issuer is invalid"
      [] exc = "InvalidAudienceError" -> "Token audience is invalid"
      [] exc = "InvalidSignatureError" -> "Token signature is invalid"
      [] exc = "InvalidAlgorithmError" ->
            "Token validation failed: The specified alg value is not allowed"
      [] exc = "ImmatureSignatureError(iat)" ->
            "Token validation failed: The token is not yet valid (iat)"
      [] exc = "ImmatureSignatureError(nbf)" ->
            "Token validation failed: The token is not yet valid (nbf)"
      [] exc = "MissingRequiredClaimError(iss)" ->
            "Token validation failed: Token is missing the \"iss\" claim"
      [] exc = "MissingRequiredClaimError(aud)" ->
            "Token validation failed: Token is missing the \"aud\" claim"
      [] OTHER -> "Token validation failed"

\* Python truthiness of decoded_token.get("email_verified", False): a string
\* is true unless it is empty.
EmailVerifiedTruthy(token) ==
    IF ~IsNone(token.email_verified_text)
    THEN Get(token.email_verified_text) # ""
    ELSE ~IsNone(token.email_verified) /\ Get(token.email_verified)

\* Lines 201-224, were auth_time left out of the returned record.
ExtractUser_without_auth_time(token, require_email_verified) ==
    LET email_verified ==
            IF IsNone(token.email_verified) THEN FALSE
            ELSE Get(token.email_verified)
    IN  IF ~Truthy(token.sub)
        THEN Raise(AuthenticationError,
                   "Token missing 'sub' (subject/user_id) claim")
        ELSE IF ~Truthy(token.email)
        THEN Raise(AuthenticationError, "Token missing 'email' claim")
        ELSE IF require_email_verified /\ ~EmailVerifiedTruthy(token)
        THEN Raise(EmailNotVerifiedError,
                   "Email verification is required but email is not verified")
        ELSE Return([uid |-> Get(token.sub), email |-> Get(token.email),
                     email_verified |-> email_verified,
                     email_verified_text |-> token.email_verified_text,
                     auth_time |-> None])

\* Lines 201-224, were an unverified email refused with the generic error.
ExtractUser_generic_policy_error(token, require_email_verified) ==
    LET email_verified ==
            IF IsNone(token.email_verified) THEN FALSE
            ELSE Get(token.email_verified)
    IN  IF ~Truthy(token.sub)
        THEN Raise(AuthenticationError,
                   "Token missing 'sub' (subject/user_id) claim")
        ELSE IF ~Truthy(token.email)
        THEN Raise(AuthenticationError, "Token missing 'email' claim")
        ELSE IF require_email_verified /\ ~EmailVerifiedTruthy(token)
        THEN Raise(AuthenticationError,
                   "Email verification is required but email is not verified")
        ELSE Return([uid |-> Get(token.sub), email |-> Get(token.email),
                     email_verified |-> email_verified,
                     email_verified_text |-> token.email_verified_text,
                     auth_time |-> token.auth_time])

\* Lines 201-224, were the email policy applied before sub and email are
\* looked for.
ExtractUser_policy_first(token, require_email_verified) ==
    LET email_verified ==
            IF IsNone(token.email_verified) THEN FALSE
            ELSE Get(token.email_verified)
    IN  IF require_email_verified /\ ~EmailVerifiedTruthy(token)
        THEN Raise(EmailNotVerifiedError,
                   "Email verification is required but email is not verified")
        ELSE IF ~Truthy(token.sub)
        THEN Raise(AuthenticationError,
                   "Token missing 'sub' (subject/user_id) claim")
        ELSE IF ~Truthy(token.email)
        THEN Raise(AuthenticationError, "Token missing 'email' claim")
        ELSE Return([uid |-> Get(token.sub), email |-> Get(token.email),
                     email_verified |-> email_verified,
                     email_verified_text |-> token.email_verified_text,
                     auth_time |-> token.auth_time])

\* auth.py lines 201-224: what follows a successful jwt.decode.
ExtractUser(token, require_email_verified) ==
    LET email_verified ==
            IF IsNone(token.email_verified) THEN FALSE
            ELSE Get(token.email_verified)
    IN  IF ~Truthy(token.sub)
        THEN Raise(AuthenticationError,
                   "Token missing 'sub' (subject/user_id) claim")
        ELSE IF ~Truthy(token.email)
        THEN Raise(AuthenticationError, "Token missing 'email' claim")
        ELSE IF require_email_verified /\ ~EmailVerifiedTruthy(token)
        THEN Raise(EmailNotVerifiedError,
                   "Email verification is required but email is not verified")
        ELSE Return([uid |-> Get(token.sub), email |-> Get(token.email),
                     email_verified |-> email_verified,
                     email_verified_text |-> token.email_verified_text,
                     auth_time |-> token.auth_time])

\* _get_verification_options: the first attribute it reads that AuthConfig
\* lacks, or None.
_get_verification_options_missing(attrs) ==
    IF ~HasAttr(attrs, "issuer_url") THEN Some("issuer_url")
    ELSE IF ~HasAttr(attrs, "audience") THEN Some("audience")
    ELSE IF ~HasAttr(attrs, "jwt_leeway") THEN Some("jwt_leeway")
    ELSE None

VerifyResult(c, cache, result, fetches, keyAge) ==
    [config |-> c, cache |-> cache, result |-> result, fetches |-> fetches,
     keyAge |-> keyAge]

\* auth.py lines 180-224, with the key set public_keys resolved.
VerifyWithKeys(attrs, token, k, public_keys, fetches, t) ==
    LET cfg == Get(k.config)
        key == public_keys[Get(token.kid)]
        missing == _get_verification_options_missing(attrs)
        decoded == jwt_decode(token, key, issuer_url(cfg), audience(cfg),
                              jwt_leeway(cfg), t)
    IN  IF ~IsNone(missing)
        THEN VerifyResult(k.config, k.cache,
                          Raise("AttributeError", Get(missing)), fetches, -1)
        ELSE IF decoded # "ok"
        THEN VerifyResult(k.config, k.cache,
                          Raise(AuthenticationError, DecodeErrorMessage(decoded)),
                          fetches, k.keyAge)
        ELSE VerifyResult(k.config, k.cache,
                          ExtractUser(token, cfg.require_email_verified),
                          fetches, k.keyAge)

\* auth.py lines 175-178 and on: k2 is what the second
\* get_google_public_keys() gave, after _key_cache.clear().
VerifyRefetched(attrs, token, fetches1, k2, t) ==
    IF ~IsNone(k2.exc)
    THEN VerifyResult(k2.config, k2.cache, Get(k2.exc),
                      fetches1 + k2.fetches, -1)
    ELSE IF Get(token.kid) \notin DOMAIN k2.keys
    THEN VerifyResult(k2.config, k2.cache,
                      Raise(AuthenticationError, KeyNotFoundMsg),
                      fetches1 + k2.fetches, -1)
    ELSE VerifyWithKeys(attrs, token, k2, k2.keys, fetches1 + k2.fetches, t)

\* Lines 167-173, were a missing kid reported without fetching again.
VerifyResolved_without_retry(attrs, token, e, certs, resp, t, k1) ==
    IF ~IsNone(k1.exc)
    THEN VerifyResult(k1.config, k1.cache, Get(k1.exc), k1.fetches, -1)
    ELSE IF Get(token.kid) \in DOMAIN k1.keys
    THEN VerifyWithKeys(attrs, token, k1, k1.keys, k1.fetches, t)
    ELSE VerifyResult(k1.config, k1.cache,
                      Raise(AuthenticationError, KeyNotFoundMsg), k1.fetches, -1)

\* Lines 167-173, were the cache not cleared before the second lookup.
VerifyResolved_without_clear(attrs, token, e, certs, resp, t, k1) ==
    IF ~IsNone(k1.exc)
    THEN VerifyResult(k1.config, k1.cache, Get(k1.exc), k1.fetches, -1)
    ELSE IF Get(token.kid) \in DOMAIN k1.keys
    THEN VerifyWithKeys(attrs, token, k1, k1.keys, k1.fetches, t)
    ELSE VerifyRefetched(attrs, token, k1.fetches,
                         get_google_public_keys(attrs, k1.config, e, k1.cache,
                                                certs, resp, t), t)

\* auth.py lines 167-173 and on: k1 is what the first
\* get_google_public_keys() gave.  When the kid is not among its keys the
\* cache is cleared and the keys are fetched again.
VerifyResolved(attrs, token, e, certs, resp, t, k1) ==
    IF ~IsNone(k1.exc)
    THEN VerifyResult(k1.config, k1.cache, Get(k1.exc), k1.fetches, -1)
    ELSE IF Get(token.kid) \in DOMAIN k1.keys
    THEN VerifyWithKeys(attrs, token, k1, k1.keys, k1.fetches, t)
    ELSE VerifyRefetched(attrs, token, k1.fetches,
                         get_google_public_keys(attrs, k1.config, e, None,
                                                certs, resp, t), t)

\* Lines 157-168, were the keys fetched before the kid is looked for.
VerifyConfigured_keys_first(attrs, token, e, cache, certs, resp, t, g) ==
    IF ~g.ok
    THEN VerifyResult(g.config, cache,
                      Raise(ConfigurationError, "Failed to load configuration"),
                      0, -1)
    ELSE IF _decode_token_header_raises(token)
    THEN VerifyResult(g.config, cache,
                      Raise(AuthenticationError, "Invalid token format"), 0, -1)
    ELSE IF ~Truthy(token.kid)
    THEN VerifyResult(g.config,
                      get_google_public_keys(attrs, g.config, e, cache,
                                             certs, resp, t).cache,
                      Raise(AuthenticationError,
                            "Token header missing 'kid' (key ID)"),
                      get_google_public_keys(attrs, g.config, e, cache,
                                             certs, resp, t).fetches, -1)
    ELSE VerifyResolved(attrs, token, e, certs, resp, t,
                        get_google_public_keys(attrs, g.config, e, cache,
                                               certs, resp, t))

\* auth.py lines 157-165 and on: g is what get_config() gave.
VerifyConfigured(attrs, token, e, cache, certs, resp, t, g) ==
    IF ~g.ok
    THEN VerifyResult(g.config, cache,
                      Raise(ConfigurationError, "Failed to load configuration"),
                      0, -1)
    ELSE IF _decode_token_header_raises(token)
    THEN VerifyResult(g.config, cache,
                      Raise(AuthenticationError, "Invalid token format"), 0, -1)
    ELSE IF ~Truthy(token.kid)
    THEN VerifyResult(g.config, cache,
                      Raise(AuthenticationError,
                            "Token header missing 'kid' (key ID)"), 0, -1)
    ELSE VerifyResolved(attrs, token, e, certs, resp, t,
                        get_google_public_keys(attrs, g.config, e, cache,
                                               certs, resp, t))

\* verify_user, were the configuration loaded before the token is looked at.
verify_user_config_first(attrs, token, c, e, cache, certs, resp, t) ==
    IF ~get_config(c, e).ok
    THEN VerifyResult(get_config(c, e).config, cache,
                      Raise(ConfigurationError, "Failed to load configuration"),
                      0, -1)
    ELSE IF token.form \in {"not_str", "empty"}
    THEN VerifyResult(get_config(c, e).config, cache,
                      Raise(AuthenticationError,
                            "Token must be a non-empty string"), 0, -1)
    ELSE VerifyConfigured(attrs, token, e, cache, certs, resp, t,
                          get_config(c, e))

\* verify_user(token) called with _config = c, os.environ = e and
\* _key_cache = cache, while the provider publishes certs, the endpoint
\* answers resp and the clock reads t.
verify_user(attrs, token, c, e, cache, certs, resp, t) ==
    IF token.form \in {"not_str", "empty"}
    THEN VerifyResult(c, cache,
                      Raise(AuthenticationError,
                            "Token must be a non-empty string"), 0, -1)
    ELSE VerifyConfigured(attrs, token, e, cache, certs, resp, t,
                          get_config(c, e))

----------------------------------------------------------------------------
(* The state machine *)

EnvUnset ==
    [firebase_credentials_path |-> None, firebase_credentials_json |-> None,
     google_project_id |-> None, require_email_verified |-> None]

\* The environments of the tests: mock_config and
\* mock_config_no_email_verification (tests/conftest.py), and an empty one.
Envs ==
    {EnvUnset,
     [EnvUnset EXCEPT !.google_project_id = Some("p1")],
     [EnvUnset EXCEPT !.google_project_id = Some("p1"),
                      !.require_email_verified = Some("False")]}

NoToken == NonJwt("-")

NoCall ==
    [op |-> "-", token |-> NoToken, result |-> Raise("-", ""), keys |-> None,
     fetches |-> 0, keyAge |-> -1, cacheAtStart |-> "empty"]

Init ==
    /\ authConfigAttrs \in {AuthConfigFields, DeclaredByTests}
    /\ env \in Envs
    /\ _config = None
    /\ _key_cache = None
    /\ published = [k \in {"k1"} |-> "A"]
    /\ endpoint = "ok"
    /\ now = 0
    /\ last = NoCall
    /\ threads = <<>>

\* A call of verify_user(token).
VerifyUser(token) ==
    \E r \in {verify_user(authConfigAttrs, token, _config, env, _key_cache,
                            published, endpoint, now)} :
        /\ _config' = r.config
        /\ _key_cache' = r.cache
        /\ last' = [op |-> "verify_user", token |-> token, result |-> r.result,
                    keys |-> None, fetches |-> r.fetches, keyAge |-> r.keyAge,
                    cacheAtStart |-> CacheState(_key_cache, now, JwksCacheTtl)]
        /\ UNCHANGED <<threads, authConfigAttrs, env, published, endpoint, now>>

\* A direct call of get_google_public_keys().
GetGooglePublicKeys ==
    \E r \in {get_google_public_keys(authConfigAttrs, _config, env,
                                       _key_cache, published, endpoint, now)} :
        /\ _config' = r.config
        /\ _key_cache' = r.cache
        /\ last' = [op |-> "get_google_public_keys", token |-> NoToken,
                    result |-> IF IsNone(r.exc) THEN Raise("keys", "")
                               ELSE Get(r.exc),
                    keys |-> IF IsNone(r.exc) THEN Some(r.keys) ELSE None,
                    fetches |-> r.fetches, keyAge |-> r.keyAge,
                    cacheAtStart |-> CacheState(_key_cache, now, JwksCacheTtl)]
        /\ UNCHANGED <<threads, authConfigAttrs, env, published, endpoint, now>>

\* A direct call of get_config().
GetConfig ==
    LET g == get_config(_config, env)
    IN  /\ _config' = g.config
        /\ last' = [NoCall EXCEPT
                        !.op = "get_config",
                        !.result = IF g.ok THEN Raise("config", "")
                                   ELSE Raise(ConfigurationError,
                                              "Failed to load configuration"),
                        !.cacheAtStart = CacheState(_key_cache, now, JwksCacheTtl)]
        /\ UNCHANGED <<threads, authConfigAttrs, env, _key_cache, published, endpoint, now>>

\* reset_config()
ResetConfig ==
    /\ _config' = None
    /\ last' = NoCall
    /\ UNCHANGED <<threads, authConfigAttrs, env, _key_cache, published, endpoint, now>>

\* _key_cache.clear(), as the test fixture clear_key_cache does.
ClearKeyCache ==
    /\ _key_cache # None
    /\ _key_cache' = None
    /\ last' = NoCall
    /\ UNCHANGED <<threads, authConfigAttrs, env, _config, published, endpoint, now>>

\* The environment changes (patch.dict(os.environ, ...)).
SetEnv(e) ==
    /\ e # env
    /\ env' = e
    /\ last' = NoCall
    /\ UNCHANGED <<threads, authConfigAttrs, _config, _key_cache, published, endpoint, now>>

\* The provider rotates its keys.
Rotate(p) ==
    /\ p # published
    /\ published' = p
    /\ last' = NoCall
    /\ UNCHANGED <<threads, authConfigAttrs, env, _config, _key_cache, endpoint, now>>

\* The key endpoint starts answering differently.
SetEndpoint(r) ==
    /\ r # endpoint
    /\ endpoint' = r
    /\ last' = NoCall
    /\ UNCHANGED <<threads, authConfigAttrs, env, _config, _key_cache, published, now>>

\* Time passes; last describes a call made at the current instant.
Tick ==
    /\ now < MaxTime
    /\ now' = now + 1
    /\ last' = NoCall
    /\ UNCHANGED <<threads, authConfigAttrs, env, _config, _key_cache, published, endpoint>>

Next ==
    \/ \E token \in Tokens : VerifyUser(token)
    \/ GetGooglePublicKeys
    \/ GetConfig
    \/ ResetConfig
    \/ ClearKeyCache
    \/ \E e \in Envs : SetEnv(e)
    \/ \E p \in ProviderSets : Rotate(p)
    \/ \E r \in Responses : SetEndpoint(r)
    \/ Tick

Spec == Init /\ [][Next]_vars

----------------------------------------------------------------------------
(* The configuration on its own: get_config and reset_config under every
   combination of the credential variables *)

AllEnvs ==
    [firebase_credentials_path : {None, Some("/creds.json")},
     firebase_credentials_json : {None, Some("not json")} \cup
                                 {Some(j) : j \in ValidJsonStrings},
     google_project_id : {None, Some(""), Some("p1")},
     require_email_verified : {None, Some("False")}]

InitConfig ==
    /\ authConfigAttrs = AuthConfigFields
    /\ env \in AllEnvs
    /\ _config = None
    /\ _key_cache = None
    /\ published = [k \in {"k1"} |-> "A"]
    /\ endpoint = "ok"
    /\ now = 0
    /\ last = NoCall
    /\ threads = <<>>

NextConfig ==
    \/ GetConfig
    \/ ResetConfig
    \/ \E e \in AllEnvs : SetEnv(e)

SpecConfig == InitConfig /\ [][NextConfig]_vars

----------------------------------------------------------------------------
(* The require_email_verified setting: the validator applied to a value, and
   the configuration loaded from each spelling in the environment *)

TrueStrings == {"True", "true", "1", "yes", "on", "On", "ON"}

FalseStrings == {"False", "false", "0", "no"}

\* Strings that are no spelling of true or false: a word, a misspelling,
\* an abbreviation.
UnrecognisedStrings == {"enabled", "ture", "y"}

FlagStrings == TrueStrings \cup FalseStrings \cup UnrecognisedStrings

FlagValues ==
    {StrValue(s) : s \in FlagStrings} \cup {BoolValue(b) : b \in BOOLEAN}

FlagEnvs ==
    {[EnvUnset EXCEPT !.google_project_id = Some("p1"),
                      !.require_email_verified = r] :
        r \in {None} \cup {Some(s) : s \in FlagStrings}}

\* AuthConfig.parse_boolean(v), as pydantic calls it for a given value.
ParseBoolean(v) ==
    /\ last' = [op |-> "parse_boolean", token |-> NoToken,
                result |-> Raise("bool", ""), keys |-> None, fetches |-> 0,
                keyAge |-> -1, cacheAtStart |-> "empty",
                input |-> v, output |-> parse_boolean(v)]
    /\ UNCHANGED <<threads, authConfigAttrs, env, _config, _key_cache,
                   published, endpoint, now>>

InitFlag ==
    /\ authConfigAttrs = AuthConfigFields
    /\ env \in FlagEnvs
    /\ _config = None
    /\ _key_cache = None
    /\ published = [k \in {"k1"} |-> "A"]
    /\ endpoint = "ok"
    /\ now = 0
    /\ last = NoCall
    /\ threads = <<>>

NextFlag ==
    \/ GetConfig
    \/ ResetConfig
    \/ \E e \in FlagEnvs : SetEnv(e)
    \/ \E v \in FlagValues : ParseBoolean(v)

SpecFlag == InitFlag /\ [][NextFlag]_vars

----------------------------------------------------------------------------
(* verify_user under each of the three credential sources, with AuthConfig
   as config.py declares it *)

ModeEnvs ==
    {[EnvUnset EXCEPT !.firebase_credentials_path = Some("/creds.json")],
     [EnvUnset EXCEPT !.google_project_id = Some("p1")]}
    \cup {[EnvUnset EXCEPT !.firebase_credentials_json = Some(j)] :
             j \in ValidJsonStrings}

InitModes ==
    /\ authConfigAttrs = AuthConfigFields
    /\ env \in ModeEnvs
    /\ _config = None
    /\ _key_cache = None
    /\ published = [k \in {"k1"} |-> "A"]
    /\ endpoint = "ok"
    /\ now = 0
    /\ last = NoCall
    /\ threads = <<>>

NextModes ==
    \/ \E token \in Tokens : VerifyUser(token)
    \/ GetConfig
    \/ ResetConfig
    \/ \E e \in ModeEnvs : SetEnv(e)

SpecModes == InitModes /\ [][NextModes]_vars

----------------------------------------------------------------------------
(* Responses without a usable key: an empty object, and one whose only
   entry is malformed *)

ZeroKeyResponses == {[k \in {} |-> "A"], [k \in {"k2"} |-> Malformed]}

ZeroKeyTokens == {ValidToken("k1", "A"), ValidToken("k2", "B")}

InitZeroKeys ==
    /\ authConfigAttrs \in {AuthConfigFields, DeclaredByTests}
    /\ env = [EnvUnset EXCEPT !.google_project_id = Some("p1")]
    /\ _config = None
    /\ _key_cache = None
    /\ published \in ZeroKeyResponses \cup {[k \in {"k1"} |-> "A"]}
    /\ endpoint = "ok"
    /\ now = 0
    /\ last = NoCall
    /\ threads = <<>>

NextZeroKeys ==
    \/ \E token \in ZeroKeyTokens : VerifyUser(token)
    \/ GetGooglePublicKeys
    \/ ClearKeyCache
    \/ \E p \in ZeroKeyResponses \cup {[k \in {"k1"} |-> "A"]} : Rotate(p)
    \/ \E r \in Responses : SetEndpoint(r)
    \/ Tick

SpecZeroKeys == InitZeroKeys /\ [][NextZeroKeys]_vars

----------------------------------------------------------------------------
(* The email_verified claim in its JSON forms: true, false, absent, and the
   strings "false" and "" *)

ClaimTypeTokens ==
    {ValidToken("k1", "A"),
     [ValidToken("k1", "A") EXCEPT !.email_verified = Some(FALSE)],
     [ValidToken("k1", "A") EXCEPT !.email_verified = None],
     [ValidToken("k1", "A") EXCEPT !.email_verified = None,
                                   !.email_verified_text = Some("false")],
     [ValidToken("k1", "A") EXCEPT !.email_verified = None,
                                   !.email_verified_text = Some("")],
     [ValidToken("k1", "A") EXCEPT !.email = Some("")]}

InitClaimTypes ==
    /\ authConfigAttrs \in {AuthConfigFields, DeclaredByTests}
    /\ env \in Envs \ {EnvUnset}
    /\ _config = None
    /\ _key_cache = None
    /\ published = [k \in {"k1"} |-> "A"]
    /\ endpoint = "ok"
    /\ now = 0
    /\ last = NoCall
    /\ threads = <<>>

NextClaimTypes ==
    \/ \E token \in ClaimTypeTokens : VerifyUser(token)
    \/ ResetConfig
    \/ \E e \in Envs \ {EnvUnset} : SetEnv(e)
    \/ Tick

SpecClaimTypes == InitClaimTypes /\ [][NextClaimTypes]_vars

----------------------------------------------------------------------------
(* Calls in progress: verify_user, get_google_public_keys and get_config
   taken one statement at a time, so that calls of several threads
   interleave.  A thread's record holds its position and its locals. *)

MaxThreadTime == 1

ThreadIds == {1, 2}

\* The tokens the threads present: a valid one, one with a kid the provider
\* does not publish, and an empty one.
ThreadTokens ==
    {ValidToken("k1", "A"), ValidToken("kx", "M"), NonJwt("empty")}

ThreadProviderSets == {[k \in {"k1"} |-> "A"], [k \in {"k2"} |-> "B"]}

Idle ==
    [pc |-> "idle", op |-> "-", token |-> NoToken, site |-> "-",
     config |-> None, kconfig |-> None, entry |-> None, keys |-> None,
     fetches |-> 0, result |-> Raise("-", "")]

Running(th) == th \in DOMAIN threads /\ threads[th].pc \notin {"idle", "done"}

At(th, pc) == th \in DOMAIN threads /\ threads[th].pc = pc

\* Thread th moves on with the locals s; nothing global changes.
Goto(th, s) ==
    /\ threads' = [threads EXCEPT ![th] = s]
    /\ UNCHANGED <<authConfigAttrs, env, _config, _key_cache, published,
                   endpoint, now, last>>

\* The call of thread record s ends by raising or returning result.
Ended(s, result) == [s EXCEPT !.pc = "done", !.result = result]

\* auth.py lines 154-155, then the call of get_config() at line 158.
StartVerify(th, token) ==
    /\ At(th, "idle")
    /\ Goto(th, IF token.form \in {"not_str", "empty"}
                THEN Ended([Idle EXCEPT !.op = "verify_user", !.token = token],
                           Raise(AuthenticationError,
                                 "Token must be a non-empty string"))
                ELSE [Idle EXCEPT !.op = "verify_user", !.token = token,
                                  !.pc = "gc_check", !.site = "verify"])

\* A direct call of get_google_public_keys(): line 33 calls get_config().
StartKeys(th) ==
    /\ At(th, "idle")
    /\ Goto(th, [Idle EXCEPT !.op = "get_google_public_keys",
                             !.pc = "gc_check", !.site = "keys"])

\* A direct call of get_config().
StartGetConfig(th) ==
    /\ At(th, "idle")
    /\ Goto(th, [Idle EXCEPT !.op = "get_config",
                             !.pc = "gc_check", !.site = "direct"])

\* config.py lines 119-127: if _config is None, construct and assign it.
GcCheck(th) ==
    /\ At(th, "gc_check")
    /\ IF ~IsNone(_config)
       THEN /\ UNCHANGED _config
            /\ threads' = [threads EXCEPT ![th].pc = "gc_return"]
       ELSE /\ _config' = AuthConfig(env)
            /\ threads' = [threads EXCEPT ![th] =
                    IF IsNone(AuthConfig(env))
                    THEN Ended(threads[th],
                               Raise(ConfigurationError,
                                     "Failed to load configuration"))
                    ELSE [threads[th] EXCEPT !.pc = "gc_return"]]
    /\ UNCHANGED <<authConfigAttrs, env, _key_cache, published, endpoint, now, last>>

\* config.py line 128: return _config, read from the global again.
GcReturn(th) ==
    /\ At(th, "gc_return")
    /\ Goto(th, LET s == threads[th] IN
                CASE s.site = "direct" ->
                        [Ended(s, Raise("config", "")) EXCEPT !.config = _config]
                  [] s.site = "verify" ->
                        [s EXCEPT !.config = _config, !.pc = "v_header"]
                  [] OTHER ->
                        [s EXCEPT !.kconfig = _config, !.pc = "gk_ttl"])

\* auth.py lines 161-165, then the call at line 168.
VHeader(th) ==
    /\ At(th, "v_header")
    /\ Goto(th, LET s == threads[th] IN
                IF _decode_token_header_raises(s.token)
                THEN Ended(s, Raise(AuthenticationError, "Invalid token format"))
                ELSE IF ~Truthy(s.token.kid)
                THEN Ended(s, Raise(AuthenticationError,
                                    "Token header missing 'kid' (key ID)"))
                ELSE [s EXCEPT !.pc = "gc_check", !.site = "first"])

\* auth.py line 35: cache_ttl = config.jwks_cache_ttl
GkTtl(th) ==
    /\ At(th, "gk_ttl")
    /\ Goto(th, LET s == threads[th] IN
                IF IsNone(s.kconfig)
                THEN Ended(s, Raise("AttributeError", "NoneType"))
                ELSE IF ~HasAttr(authConfigAttrs, "jwks_cache_ttl")
                THEN Ended(s, Raise("AttributeError", "jwks_cache_ttl"))
                ELSE [s EXCEPT !.pc = "gk_check"])

\* auth.py line 38: if cache_key in _key_cache
GkCheck(th) ==
    /\ At(th, "gk_check")
    /\ Goto(th, [threads[th] EXCEPT
                    !.pc = IF IsNone(_key_cache) THEN "gk_fetch" ELSE "gk_read"])

\* auth.py line 39: cached_data = _key_cache[cache_key], a KeyError when the
\* entry is gone.
GkRead(th) ==
    /\ At(th, "gk_read")
    /\ Goto(th, LET s == threads[th] IN
                IF IsNone(_key_cache)
                THEN Ended(s, Raise("KeyError", "google_public_keys"))
                ELSE [s EXCEPT !.entry = _key_cache, !.pc = "gk_fresh"])

\* Where a call of get_google_public_keys goes on once it has its keys.
KeysObtained(s, keys) ==
    IF s.site = "keys"
    THEN [Ended(s, Raise("keys", "")) EXCEPT
              !.keys = Some(keys), !.kconfig = None, !.entry = None]
    ELSE [s EXCEPT !.keys = Some(keys), !.kconfig = None, !.entry = None,
                   !.pc = "v_lookup"]

\* auth.py lines 40-41: the entry read is returned when it is fresh.
GkFresh(th) ==
    /\ At(th, "gk_fresh")
    /\ Goto(th, LET s == threads[th] IN
                IF CacheHit(s.entry, now, jwks_cache_ttl(Get(s.kconfig)))
                THEN KeysObtained(s, Get(s.entry).keys)
                ELSE [s EXCEPT !.pc = "gk_fetch"])

\* auth.py lines 44-68: the request, and the conversion of the certificates
\* into the local public_keys.
GkFetch(th) ==
    /\ At(th, "gk_fetch")
    /\ Goto(th, LET s == threads[th]
                    r == FetchKeys(s.kconfig, None, published, endpoint, now)
                IN  IF ~HasAttr(authConfigAttrs, "GOOGLE_JWKS_ENDPOINT")
                    THEN Ended(s, Raise("AttributeError", "GOOGLE_JWKS_ENDPOINT"))
                    ELSE IF ~IsNone(r.exc)
                    THEN Ended(s, Get(r.exc))
                    ELSE [s EXCEPT !.keys = Some(r.keys), !.pc = "gk_store"])

\* Lines 70-74, were the entry in the cache updated in place.
StoreEntry_in_place(cache, keys, t) ==
    IF IsNone(cache) THEN Some([keys |-> keys, timestamp |-> t])
    ELSE Some([keys |-> [k \in DOMAIN keys \cup DOMAIN Get(cache).keys |->
                            IF k \in DOMAIN keys THEN keys[k]
                            ELSE Get(cache).keys[k]],
               timestamp |-> Get(cache).timestamp])

\* auth.py lines 70-74: one assignment of a new entry to _key_cache.
StoreEntry(cache, keys, t) == Some([keys |-> keys, timestamp |-> t])

\* auth.py lines 70-76: the cache entry is replaced and the keys returned.
GkStore(th) ==
    /\ At(th, "gk_store")
    /\ _key_cache' = StoreEntry(_key_cache, Get(threads[th].keys), now)
    /\ threads' = [threads EXCEPT ![th] =
                        KeysObtained(threads[th], Get(threads[th].keys))]
    /\ UNCHANGED <<authConfigAttrs, env, _config, published, endpoint, now, last>>

\* Lines 170-178, were the cache cleared again after every miss.
OnMissingKid_always_retry(site) == "v_clear"

\* auth.py lines 170-178: a miss of the first lookup clears the cache and
\* fetches again; a miss of the second raises.
OnMissingKid(site) == IF site = "first" THEN "v_clear" ELSE "done"

\* auth.py lines 170 and 175: if key_id not in public_keys
VLookup(th) ==
    /\ At(th, "v_lookup")
    /\ Goto(th, LET s == threads[th] IN
                IF Get(s.token.kid) \in DOMAIN Get(s.keys)
                THEN [s EXCEPT !.pc = "v_decode"]
                ELSE IF OnMissingKid(s.site) = "v_clear"
                THEN [s EXCEPT !.pc = "v_clear"]
                ELSE Ended(s, Raise(AuthenticationError, KeyNotFoundMsg)))

\* auth.py lines 172-173: _key_cache.clear(), then the second call.
VClear(th) ==
    /\ At(th, "v_clear")
    /\ _key_cache' = None
    /\ threads' = [threads EXCEPT ![th].pc = "gc_check", ![th].site = "retry"]
    /\ UNCHANGED <<authConfigAttrs, env, _config, published, endpoint, now, last>>

\* auth.py lines 180-224: options, jwt.decode, extraction and policy, all on
\* the locals config and public_keys.
VDecode(th) ==
    /\ At(th, "v_decode")
    /\ Goto(th, LET s == threads[th] IN
                IF IsNone(s.config)
                THEN Ended(s, Raise("AttributeError", "NoneType"))
                ELSE Ended(s, VerifyWithKeys(authConfigAttrs, s.token,
                                  [config |-> s.config, cache |-> _key_cache,
                                   keyAge |-> 0],
                                  Get(s.keys), s.fetches, now).result))

\* The caller has its result; the thread is free for another call.
Finish(th) ==
    /\ At(th, "done")
    /\ Goto(th, Idle)

\* A thread starts a call.
Begin(th) ==
    \/ \E token \in ThreadTokens : StartVerify(th, token)
    \/ StartKeys(th)
    \/ StartGetConfig(th)

\* A thread executes its next statement.
Advance(th) ==
    \/ GcCheck(th) \/ GcReturn(th) \/ VHeader(th)
    \/ GkTtl(th) \/ GkCheck(th) \/ GkRead(th) \/ GkFresh(th)
    \/ GkFetch(th) \/ GkStore(th)
    \/ VLookup(th) \/ VClear(th) \/ VDecode(th)

\* Time passes while calls are in progress.
TickThreads ==
    /\ now < MaxThreadTime
    /\ now' = now + 1
    /\ UNCHANGED <<threads, authConfigAttrs, env, _config, _key_cache,
                   published, endpoint, last>>

InitThreads ==
    /\ authConfigAttrs \in {AuthConfigFields, DeclaredByTests}
    /\ env = [EnvUnset EXCEPT !.google_project_id = Some("p1")]
    /\ _config = None
    /\ _key_cache = None
    /\ published = [k \in {"k1"} |-> "A"]
    /\ endpoint = "ok"
    /\ now = 0
    /\ last = NoCall
    /\ threads = [th \in ThreadIds |-> Idle]

NextThreads ==
    \/ \E th \in ThreadIds : Begin(th)
    \/ \E th \in ThreadIds : Advance(th)
    \/ \E th \in ThreadIds : Finish(th)
    \/ ResetConfig
    \/ \E p \in ThreadProviderSets : Rotate(p)
    \/ TickThreads

SpecThreads == InitThreads /\ [][NextThreads]_vars

\* One caller: a single call in progress at a time, while the endpoint, the
\* published keys, the clock and the configuration change around it.
InitSteps ==
    /\ authConfigAttrs \in {AuthConfigFields, DeclaredByTests}
    /\ env = [EnvUnset EXCEPT !.google_project_id = Some("p1")]
    /\ _config = None
    /\ _key_cache = None
    /\ published = [k \in {"k1"} |-> "A"]
    /\ endpoint = "ok"
    /\ now = 0
    /\ last = NoCall
    /\ threads = [th \in {1} |-> Idle]

NextSteps ==
    \/ \E th \in ThreadIds : Begin(th)
    \/ \E th \in ThreadIds : Advance(th)
    \/ \E th \in ThreadIds : Finish(th)
    \/ ResetConfig
    \/ \E p \in ThreadProviderSets : Rotate(p)
    \/ \E r \in Responses : SetEndpoint(r)
    \/ Tick

SpecSteps == InitSteps /\ [][NextSteps]_vars

\* A thread that is inside a call goes on executing it.
FairSpecSteps == SpecSteps /\ WF_vars(\E th \in ThreadIds : Advance(th))

\* One caller, while reset_config runs and the environment changes between
\* the two test configurations (email verification required, and not).
InitSnapshot ==
    /\ authConfigAttrs \in {AuthConfigFields, DeclaredByTests}
    /\ env \in Envs \ {EnvUnset}
    /\ _config = None
    /\ _key_cache = None
    /\ published = [k \in {"k1"} |-> "A"]
    /\ endpoint = "ok"
    /\ now = 0
    /\ last = NoCall
    /\ threads = [th \in {1} |-> Idle]

NextSnapshot ==
    \/ \E th \in ThreadIds : Begin(th)
    \/ \E th \in ThreadIds : Advance(th)
    \/ \E th \in ThreadIds : Finish(th)
    \/ ResetConfig
    \/ \E e \in Envs \ {EnvUnset} : SetEnv(e)

SpecSnapshot == InitSnapshot /\ [][NextSnapshot]_vars

----------------------------------------------------------------------------
(* The example HTTP adapter (examples/backend.py, get_current_user) *)

\* Authorization headers: the scheme is what the header starts with, the
\* token what is left once "Bearer " is removed.
Header(scheme, token) == [scheme |-> scheme, token |-> token]

AdapterTokens ==
    {ValidToken("k1", "A"),
     [ValidToken("k1", "A") EXCEPT !.email_verified = Some(FALSE)],
     ValidToken("kx", "M"),
     NonJwt("empty")}

Headers ==
    {Header("Bearer ", t) : t \in AdapterTokens} \cup
    {Header("Basic ", NonJwt("empty")), Header("bearer ", ValidToken("k1", "A"))}

\* An HTTPException with the given status, or, with status 0, the exception
\* kind leaving get_current_user as it is.
HttpResponse(status, kind) == [status |-> status, raised |-> kind]

\* Lines 55-70, were the AuthenticationError clause placed first.
HandleException_authentication_first(kind) ==
    IF IsAuthenticationError(kind) THEN HttpResponse(401, "HTTPException")
    ELSE IF kind = EmailNotVerifiedError THEN HttpResponse(403, "HTTPException")
    ELSE IF kind = ConfigurationError THEN HttpResponse(500, "HTTPException")
    ELSE HttpResponse(0, kind)

\* backend.py lines 55-70: the except clauses, tried in order; a clause
\* for a class catches its subclasses, and what no clause catches propagates.
HandleException(kind) ==
    IF kind = EmailNotVerifiedError THEN HttpResponse(403, "HTTPException")
    ELSE IF IsAuthenticationError(kind) THEN HttpResponse(401, "HTTPException")
    ELSE IF kind = ConfigurationError THEN HttpResponse(500, "HTTPException")
    ELSE HttpResponse(0, kind)

\* get_current_user(authorization): the header test of line 46, whose
\* HTTPException no clause catches, then verify_user on the token.
GetCurrentUser(h) ==
    IF h.scheme # "Bearer "
    THEN /\ last' = [op |-> "get_current_user", token |-> NoToken,
                     result |-> Raise("HTTPException",
                                      "Invalid authorization header format"),
                     keys |-> None, fetches |-> 0, keyAge |-> -1,
                     cacheAtStart |-> CacheState(_key_cache, now, JwksCacheTtl),
                     header |-> h, verified |-> FALSE,
                     response |-> HttpResponse(401, "HTTPException")]
         /\ UNCHANGED <<threads, authConfigAttrs, env, _config, _key_cache,
                        published, endpoint, now>>
    ELSE \E r \in {verify_user(authConfigAttrs, h.token, _config, env,
                               _key_cache, published, endpoint, now)} :
         /\ _config' = r.config
         /\ _key_cache' = r.cache
         /\ last' = [op |-> "get_current_user", token |-> h.token,
                     result |-> r.result, keys |-> None,
                     fetches |-> r.fetches, keyAge |-> r.keyAge,
                     cacheAtStart |-> CacheState(_key_cache, now, JwksCacheTtl),
                     header |-> h, verified |-> TRUE,
                     response |-> IF r.result.kind = "record"
                                  THEN HttpResponse(200, "-")
                                  ELSE HandleException(r.result.kind)]
         /\ UNCHANGED <<threads, authConfigAttrs, env, published, endpoint, now>>

InitAdapter ==
    /\ authConfigAttrs \in {AuthConfigFields, DeclaredByTests}
    /\ env \in Envs
    /\ _config = None
    /\ _key_cache = None
    /\ published = [k \in {"k1"} |-> "A"]
    /\ endpoint = "ok"
    /\ now = 0
    /\ last = NoCall
    /\ threads = <<>>

NextAdapter ==
    \/ \E h \in Headers : GetCurrentUser(h)
    \/ ResetConfig
    \/ \E e \in Envs : SetEnv(e)
    \/ \E r \in Responses : SetEndpoint(r)
    \/ Tick

SpecAdapter == InitAdapter /\ [][NextAdapter]_vars

----------------------------------------------------------------------------
(* What the claims speak of *)

\* The last call was verify_user.
Called == last.op = "verify_user"

Returned == Called /\ last.result.kind = "record"

\* The configuration the last call used.
Cfg == Get(_config)

\* jwt.decode ran in the last verify_user call, with a resolved key.
Decoded == Called /\ last.keyAge >= 0

\* The key set that call resolved the key from: it is what the cache holds.
UsedKeys == Get(_key_cache).keys

\* The token's signature verifies as RS256 under the key resolved for its kid.
SignatureVerifies ==
    /\ last.token.alg = "RS256"
    /\ last.token.signer = UsedKeys[Get(last.token.kid)]

Msg == last.result.msg

\* The failures that come from the content of the payload.
ClaimOutcome ==
    \/ last.result.kind = EmailNotVerifiedError
    \/ /\ last.result.kind = AuthenticationError
       /\ Msg \in {"Token has expired", "Token issuer is invalid",
                   "Token audience is invalid",
                   "Token validation failed: The token is not yet valid (iat)",
                   "Token validation failed: The token is not yet valid (nbf)",
                   "Token validation failed: Token is missing the \"iss\" claim",
                   "Token validation failed: Token is missing the \"aud\" claim",
                   "Token missing 'sub' (subject/user_id) claim",
                   "Token missing 'email' claim"}

----------------------------------------------------------------------------
(* C1 *)

\* C1: verify_user returns a record only after a fully successful
\* verification: the signature verified under the key resolved for the kid,
\* iss and aud equal the configured ones, the token carries an exp with
\* exp + leeway >= now, sub and email are non-empty and, when
\* require_email_verified is on, email_verified is true.
C1_RecordOnlyAfterFullVerification ==
    Returned =>
        /\ ~IsNone(_config) /\ ~IsNone(_key_cache)
        /\ Truthy(last.token.kid)
        /\ Get(last.token.kid) \in DOMAIN UsedKeys
        /\ SignatureVerifies
        /\ last.token.iss = Some(issuer_url(Cfg))
        /\ last.token.aud = Some(audience(Cfg))
        /\ ~IsNone(last.token.exp)
        /\ Get(last.token.exp) + jwt_leeway(Cfg) >= now
        /\ Truthy(last.token.sub) /\ Truthy(last.token.email)
        /\ Cfg.require_email_verified => last.token.email_verified = Some(TRUE)

\* C1, the part the code keeps: as above, but a token that carries no exp
\* claim passes the expiry check.
C1_RecordOnlyAfterVerificationOfPresentExp ==
    Returned =>
        /\ ~IsNone(_config) /\ ~IsNone(_key_cache)
        /\ Truthy(last.token.kid)
        /\ Get(last.token.kid) \in DOMAIN UsedKeys
        /\ SignatureVerifies
        /\ last.token.iss = Some(issuer_url(Cfg))
        /\ last.token.aud = Some(audience(Cfg))
        /\ ~IsNone(last.token.exp) => Get(last.token.exp) + jwt_leeway(Cfg) >= now
        /\ Truthy(last.token.sub) /\ Truthy(last.token.email)
        /\ Cfg.require_email_verified => last.token.email_verified = Some(TRUE)

\* C1: a record was returned for a token without an exp claim.
C1_RecordWithoutExp == Returned /\ IsNone(last.token.exp)

----------------------------------------------------------------------------
(* C2 *)

\* The token's iss and aud are the configured ones and its timing claims
\* pass at the time of the call.
ClaimsMatch ==
    /\ last.token.iss = Some(issuer_url(Cfg))
    /\ last.token.aud = Some(audience(Cfg))
    /\ IsNone(last.token.exp) \/ Get(last.token.exp) + jwt_leeway(Cfg) > now
    /\ IsNone(last.token.iat) \/ Get(last.token.iat) <= now + jwt_leeway(Cfg)
    /\ IsNone(last.token.nbf) \/ Get(last.token.nbf) <= now + jwt_leeway(Cfg)

PolicySatisfied ==
    \/ last.token.email_verified = Some(TRUE)
    \/ ~Cfg.require_email_verified

\* C2 as stated: every token signed by a key the key store resolved, whose
\* issuer, audience and timing match the configuration and whose
\* email_verified is true (or the policy is off), yields a record whose
\* fields equal the token's sub, email, email_verified and auth_time.
C2_MatchingTokenYieldsItsClaims ==
    (Decoded /\ SignatureVerifies /\ ClaimsMatch /\ PolicySatisfied) =>
        /\ Returned
        /\ Some(last.result.record.uid) = last.token.sub
        /\ Some(last.result.record.email) = last.token.email
        /\ Some(last.result.record.email_verified) = last.token.email_verified
        /\ last.result.record.auth_time = last.token.auth_time

\* C2, amended: the same for the tokens whose sub and email are non-empty;
\* email_verified is false in the record when the claim is absent, and
\* auth_time is null when the claim is absent.
C2_ValidTokenYieldsItsClaims ==
    (/\ Decoded /\ SignatureVerifies /\ ClaimsMatch /\ PolicySatisfied
     /\ Truthy(last.token.sub) /\ Truthy(last.token.email)) =>
        /\ Returned
        /\ last.result.record =
               [uid |-> Get(last.token.sub),
                email |-> Get(last.token.email),
                email_verified |-> (last.token.email_verified = Some(TRUE)),
                email_verified_text |-> last.token.email_verified_text,
                auth_time |-> last.token.auth_time]

\* C2: a record was returned for a token that carries auth_time, by a call
\* that fetched the key set.
C2_RecordReturned ==
    Returned /\ last.fetches = 1 /\ ~IsNone(last.token.auth_time)

----------------------------------------------------------------------------
(* C3 *)

\* C3 as stated: a token whose signature does not verify under the
\* resolved key fails with the signature error whatever its payload, and no
\* payload-dependent outcome comes from an unverified signature.
C3_BadSignatureReportsSignature ==
    /\ (Decoded /\ ~SignatureVerifies) =>
            /\ last.result.kind = AuthenticationError
            /\ Msg = "Token signature is invalid"
    /\ (Called /\ ClaimOutcome) => (Decoded /\ SignatureVerifies)

\* C3, amended: such a token fails with AuthenticationError before any
\* claim is examined, with "Token signature is invalid" when its alg is
\* RS256 and with "Token validation failed: The specified alg value is not
\* allowed" when its header names another algorithm; no payload-dependent
\* outcome comes from an unverified signature.
C3_SignatureBeforeClaims ==
    /\ (Decoded /\ ~SignatureVerifies) =>
            /\ last.result.kind = AuthenticationError
            /\ Msg = IF last.token.alg = "RS256"
                     THEN "Token signature is invalid"
                     ELSE "Token validation failed: The specified alg value is not allowed"
    /\ (Called /\ ClaimOutcome) => (Decoded /\ SignatureVerifies)

\* C3: a forged token with a wrong audience was rejected for its signature.
C3_ForgedTokenRejected ==
    /\ Decoded /\ ~SignatureVerifies
    /\ last.token.aud = Some("invalid-audience")
    /\ Msg = "Token signature is invalid"

----------------------------------------------------------------------------
(* C4 *)

\* The last call verified a JWT whose header carries a kid.
CalledWithKid ==
    Called /\ last.token.form = "jwt" /\ Truthy(last.token.kid)

\* The kid of the token is among the keys the provider publishes now.
KidPublished == Get(last.token.kid) \in DOMAIN ParseCerts(published)

\* The kid was found in the cached set, which had not expired, so that the
\* call fetched nothing.
KidHeldInCache ==
    /\ last.cacheAtStart = "fresh" /\ last.fetches = 0
    /\ ~IsNone(_key_cache)
    /\ Get(last.token.kid) \in DOMAIN UsedKeys

\* The token names a published kid and was signed as RS256 with a private
\* key other than the one published under that kid.
SignedWithOtherKey ==
    /\ KidPublished
    /\ last.token.alg = "RS256"
    /\ last.token.signer # ParseCerts(published)[Get(last.token.kid)]

\* C4 as stated: a token whose kid is not a key the provider publishes
\* never yields a record, and a token that carries a published kid but was
\* signed with a different private key fails with the signature error.
C4_UnpublishedKidNeverAccepted ==
    /\ (CalledWithKid /\ ~KidPublished) => ~Returned
    /\ (Decoded /\ SignedWithOtherKey) =>
            /\ last.result.kind = AuthenticationError
            /\ Msg = "Token signature is invalid"

\* C4, amended: a token whose kid is neither published nor held in the
\* unexpired cache never yields a record, and fails with the key-not-found
\* AuthenticationError once the key set has been fetched again; a kid the
\* provider has withdrawn stays accepted until the cached set expires.  A
\* token that carries a published kid but was signed with a different
\* private key fails with the signature error.
C4_UnresolvableKidRejected ==
    /\ (CalledWithKid /\ ~KidPublished /\ ~KidHeldInCache) =>
            /\ ~Returned
            /\ (last.fetches >= 1 /\ endpoint = "ok") =>
                    /\ last.result.kind = AuthenticationError
                    /\ Msg = KeyNotFoundMsg
    /\ (Decoded /\ SignedWithOtherKey) =>
            /\ last.result.kind = AuthenticationError
            /\ Msg = "Token signature is invalid"

\* C4: a token with an unpublished kid was refused as key-not-found.
C4_KeyNotFound ==
    CalledWithKid /\ ~KidPublished /\ Msg = KeyNotFoundMsg

----------------------------------------------------------------------------
(* C5 *)

\* The step is a call of verify_user.
VerifyStep == last'.op = "verify_user"

\* Before the step the cache holds an unexpired set without the kid of tok.
CachedWithoutKid(tok) ==
    /\ CacheHit(_key_cache, now, JwksCacheTtl)
    /\ Truthy(tok.kid)
    /\ Get(tok.kid) \notin DOMAIN Get(_key_cache).keys

\* tok is a token verify_user accepts under configuration cfg at time t when
\* it resolves the key from the set keys.
Acceptable(tok, cfg, keys, t) ==
    /\ tok.form = "jwt" /\ Truthy(tok.kid)
    /\ Get(tok.kid) \in DOMAIN keys
    /\ tok.alg = "RS256" /\ tok.signer = keys[Get(tok.kid)]
    /\ tok.iss = Some(issuer_url(cfg)) /\ tok.aud = Some(audience(cfg))
    /\ IsNone(tok.exp) \/ Get(tok.exp) + jwt_leeway(cfg) > t
    /\ IsNone(tok.iat) \/ Get(tok.iat) <= t + jwt_leeway(cfg)
    /\ IsNone(tok.nbf) \/ Get(tok.nbf) <= t + jwt_leeway(cfg)
    /\ Truthy(tok.sub) /\ Truthy(tok.email)
    /\ tok.email_verified = Some(TRUE) \/ ~cfg.require_email_verified

\* C5: when the kid of an otherwise valid token is absent from the cached,
\* unexpired key set but present in the set the provider publishes, one
\* call of verify_user clears the cache, fetches once and returns the
\* record; afterwards the cache holds the newly fetched set stamped with
\* the time of the call.
C5_RotationHandledInOneCall ==
    [][ (/\ VerifyStep
         /\ CachedWithoutKid(last'.token)
         /\ endpoint = "ok"
         /\ get_config(_config, env).ok
         /\ Acceptable(last'.token, Get(get_config(_config, env).config),
                       ParseCerts(published), now))
        => /\ last'.result.kind = "record"
           /\ last'.fetches = 1
           /\ _key_cache' = Some([keys |-> ParseCerts(published),
                                  timestamp |-> now]) ]_vars

\* C5: a record was returned by a call that found the cache unexpired and
\* still fetched the key set.
C5_RecordAfterRotation ==
    Returned /\ last.cacheAtStart = "fresh" /\ last.fetches = 1

----------------------------------------------------------------------------
(* C6 *)

\* C6 as stated: a call that ends in key-not-found has fetched the key set
\* exactly once, whatever the state of the cache when it started, and no
\* call fetches more than once.
C6_MissingKidFetchesOnce ==
    /\ (Called /\ Msg = KeyNotFoundMsg) => last.fetches = 1
    /\ Called => last.fetches <= 1

\* C6, amended: a call that ends in key-not-found has fetched the key set
\* once when the cache was unexpired at its start and twice when the cache
\* was empty or expired; no call fetches more than twice.
C6_MissingKidFetchesAtMostTwice ==
    /\ (Called /\ Msg = KeyNotFoundMsg) =>
            last.fetches = IF last.cacheAtStart = "fresh" THEN 1 ELSE 2
    /\ Called => last.fetches <= 2

\* C6: key-not-found came after two fetches, the cache having expired.
C6_KeyNotFoundAfterTwoFetches ==
    /\ Called /\ Msg = KeyNotFoundMsg
    /\ last.cacheAtStart = "expired" /\ last.fetches = 2

----------------------------------------------------------------------------
(* C7 *)

\* C7: a call that repeats, at the same instant and with nothing changed
\* in between, a verify_user call that returned a record returns the same
\* record, fetches nothing and leaves the cache as it was, the first call
\* having fetched at most once; the same holds of get_google_public_keys
\* and the key set it returns.
C7_RepeatedCallServedFromCache ==
    [][ /\ (/\ last.op = "verify_user" /\ last.result.kind = "record"
            /\ last'.op = "verify_user" /\ last'.token = last.token)
           => /\ last'.result = last.result
              /\ last.fetches <= 1
              /\ last'.fetches = 0
              /\ _key_cache' = _key_cache
        /\ (/\ last.op = "get_google_public_keys" /\ ~IsNone(last.keys)
            /\ last'.op = "get_google_public_keys")
           => /\ last'.keys = last.keys
              /\ last.fetches <= 1
              /\ last'.fetches = 0
              /\ _key_cache' = _key_cache ]_vars

\* C7: a record was returned by a call that fetched nothing.
C7_RecordFromCache ==
    Returned /\ last.cacheAtStart = "fresh" /\ last.fetches = 0

----------------------------------------------------------------------------
(* C8 *)

\* The last call obtained a key set from get_google_public_keys.
KeysHandedOut ==
    /\ last.op \in {"verify_user", "get_google_public_keys"}
    /\ last.keyAge >= 0

\* C8: a key set handed out is the cached one and is younger than the TTL,
\* its age being that of the whole set, counted from its one timestamp; a
\* call that found the cache expired hands out keys only after a fetch
\* that succeeded, and those keys are the published ones, stamped now.
C8_NoKeyOlderThanTtl ==
    /\ KeysHandedOut =>
            /\ ~IsNone(_key_cache)
            /\ now - Get(_key_cache).timestamp < JwksCacheTtl
            /\ last.keyAge = now - Get(_key_cache).timestamp
            /\ last.op = "get_google_public_keys" =>
                    last.keys = Some(Get(_key_cache).keys)
    /\ (KeysHandedOut /\ last.cacheAtStart = "expired") =>
            /\ last.fetches >= 1 /\ endpoint = "ok"
            /\ _key_cache = Some([keys |-> ParseCerts(published),
                                  timestamp |-> now])

\* C8: keys were handed out by a call that found the cache expired.
C8_ExpiredSetFetchedAgain ==
    KeysHandedOut /\ last.cacheAtStart = "expired" /\ last.fetches = 1

----------------------------------------------------------------------------
(* C9 *)

\* The step is a call that requested the key set while the endpoint failed.
FailedFetchStep ==
    /\ last'.op \in {"verify_user", "get_google_public_keys"}
    /\ last'.fetches >= 1
    /\ endpoint = "http_error"

\* C9: a call during which the request for the key set fails raises
\* AuthenticationError with the fetch-failure message, which is not the
\* key-not-found message, and stores nothing in the cache: the cache is
\* left as it was or, when verify_user had cleared it, empty.
C9_FailedFetchReportedAndNotCached ==
    [][ FailedFetchStep
        => /\ last'.result.kind = AuthenticationError
           /\ last'.result.msg = FetchFailedMsg
           /\ last'.result.msg # KeyNotFoundMsg
           /\ _key_cache' \in {_key_cache, None} ]_vars

\* C9: verify_user failed with the fetch-failure error after clearing an
\* unexpired cache.
C9_FetchFailed ==
    /\ Called /\ last.fetches = 1 /\ last.cacheAtStart = "fresh"
    /\ last.result.kind = AuthenticationError /\ Msg = FetchFailedMsg
    /\ IsNone(_key_cache)

----------------------------------------------------------------------------
(* C10 *)

\* C10: every call of verify_user returns a record or raises one of
\* AuthenticationError, EmailNotVerifiedError and ConfigurationError.
C10_ErrorTaxonomyClosed ==
    Called => last.result.kind \in {"record", AuthenticationError,
                                    EmailNotVerifiedError, ConfigurationError}

\* C10: verify_user let the JSON error of a key response escape.
C10_JsonErrorEscapes ==
    Called /\ last.result.kind = "JSONDecodeError"

----------------------------------------------------------------------------
(* C11 *)

\* The last call decoded a token that carries an exp claim and passes every
\* check other than the expiry check.
ValidButForExpiry ==
    /\ Decoded /\ SignatureVerifies
    /\ last.token.iss = Some(issuer_url(Cfg))
    /\ last.token.aud = Some(audience(Cfg))
    /\ IsNone(last.token.iat) \/ Get(last.token.iat) <= now + jwt_leeway(Cfg)
    /\ IsNone(last.token.nbf) \/ Get(last.token.nbf) <= now + jwt_leeway(Cfg)
    /\ Truthy(last.token.sub) /\ Truthy(last.token.email)
    /\ PolicySatisfied
    /\ ~IsNone(last.token.exp)

ExpiredMsg == "Token has expired"

\* C11 as stated: with all other claims valid, the token is accepted
\* exactly when exp + leeway >= now, and is otherwise refused as expired;
\* the boundary exp = now - leeway is accepted.
C11_ExpiryLeewayInclusive ==
    ValidButForExpiry =>
        IF Get(last.token.exp) + jwt_leeway(Cfg) >= now
        THEN Returned
        ELSE last.result.kind = AuthenticationError /\ Msg = ExpiredMsg

\* C11, amended: with all other claims valid, the token is accepted exactly
\* when exp + leeway > now, and is otherwise refused as expired; at the
\* boundary exp = now - leeway it is refused.
C11_ExpiryLeewayExclusive ==
    ValidButForExpiry =>
        IF Get(last.token.exp) + jwt_leeway(Cfg) > now
        THEN Returned
        ELSE last.result.kind = AuthenticationError /\ Msg = ExpiredMsg

\* C11: a token was refused as expired at the instant exp + leeway = now.
C11_RefusedAtBoundary ==
    /\ ValidButForExpiry
    /\ Get(last.token.exp) + jwt_leeway(Cfg) = now
    /\ Msg = ExpiredMsg

----------------------------------------------------------------------------
(* C12 *)

\* The token of the last call fails the check named r, taken on its own.
Violated(r) ==
    CASE r = "issuer" -> last.token.iss # Some(issuer_url(Cfg))
      [] r = "audience" -> last.token.aud # Some(audience(Cfg))
      [] r = "expiry" ->
            /\ ~IsNone(last.token.exp)
            /\ Get(last.token.exp) + jwt_leeway(Cfg) <= now
      [] r = "timing" ->
            \/ ~IsNone(last.token.iat)
                    /\ Get(last.token.iat) > now + jwt_leeway(Cfg)
            \/ ~IsNone(last.token.nbf)
                    /\ Get(last.token.nbf) > now + jwt_leeway(Cfg)
      [] r = "subject" -> ~Truthy(last.token.sub)
      [] r = "email" -> ~Truthy(last.token.email)

\* The messages verify_user has for a failure of the check named r.
ReasonMessages(r) ==
    CASE r = "issuer" ->
            {"Token issuer is invalid",
             "Token validation failed: Token is missing the \"iss\" claim"}
      [] r = "audience" ->
            {"Token audience is invalid",
             "Token validation failed: Token is missing the \"aud\" claim"}
      [] r = "expiry" -> {ExpiredMsg}
      [] r = "timing" ->
            {"Token validation failed: The token is not yet valid (iat)",
             "Token validation failed: The token is not yet valid (nbf)"}
      [] r = "subject" -> {"Token missing 'sub' (subject/user_id) claim"}
      [] r = "email" -> {"Token missing 'email' claim"}

\* The first check of order that the token of the last call fails, or "none".
FirstViolated(order) ==
    LET failing == {i \in 1..Len(order) : Violated(order[i])}
    IN  IF failing = {} THEN "none"
        ELSE order[CHOOSE i \in failing : \A j \in failing : i <= j]

\* The last call reported the first failure of its token in the given order.
ReportsFirstOf(order) ==
    (Decoded /\ SignatureVerifies) =>
        IF FirstViolated(order) = "none"
        THEN last.result.kind \in {"record", EmailNotVerifiedError}
        ELSE /\ last.result.kind = AuthenticationError
             /\ Msg \in ReasonMessages(FirstViolated(order))

\* C12 as stated: for a signature-valid token the error reported is that
\* of the first failing check in the order issuer, audience, expiry,
\* issued-at/not-before timing, subject, email.
C12_ChecksInStatedOrder ==
    ReportsFirstOf(<<"issuer", "audience", "expiry", "timing", "subject", "email">>)

\* C12, amended: the error reported is that of the first failing check in
\* the order issued-at/not-before timing, expiry, issuer, audience,
\* subject, email.
C12_ChecksInDecodeOrder ==
    ReportsFirstOf(<<"timing", "expiry", "issuer", "audience", "subject", "email">>)

\* C12: a token with a wrong issuer that has also expired was reported as
\* expired.
C12_ExpiredReportedBeforeIssuer ==
    /\ Decoded /\ SignatureVerifies
    /\ Violated("issuer") /\ Violated("expiry")
    /\ Msg = ExpiredMsg

----------------------------------------------------------------------------
(* C13 *)

FailureReasons ==
    {"algorithm", "signature", "timing", "expiry", "issuer", "audience",
     "subject", "email"}

\* The messages verify_user has for each reason a decoded token fails for.
FailureMessages(r) ==
    CASE r = "algorithm" ->
            {"Token validation failed: The specified alg value is not allowed"}
      [] r = "signature" -> {"Token signature is invalid"}
      [] OTHER -> ReasonMessages(r)

\* Why the token of the last call fails, or "none".
FailureReason ==
    IF last.token.alg # "RS256" THEN "algorithm"
    ELSE IF ~SignatureVerifies THEN "signature"
    ELSE FirstViolated(<<"timing", "expiry", "issuer", "audience", "subject", "email">>)

\* C13: a token that fails for one of the reasons bad signature, timing,
\* expiry, issuer, audience, missing subject, missing email is refused with
\* AuthenticationError carrying a message of that reason, and that message
\* is the message of no other reason.
C13_FailureMessagesDistinct ==
    (Decoded /\ FailureReason # "none") =>
        /\ last.result.kind = AuthenticationError
        /\ Msg \in FailureMessages(FailureReason)
        /\ \A r \in FailureReasons \ {FailureReason} : Msg \notin FailureMessages(r)

\* C13: a token not yet valid was refused with the timing message.
C13_TimingFailureReported ==
    /\ Decoded /\ FailureReason = "timing"
    /\ Msg \in FailureMessages("timing")
    /\ Msg # ExpiredMsg

----------------------------------------------------------------------------
(* C14 *)

\* The last call decoded a token that passes every check and whose
\* email_verified claim is false.
ValidUnverified ==
    /\ Decoded /\ FailureReason = "none"
    /\ last.token.email_verified = Some(FALSE)

\* C14: for an otherwise fully valid token with email_verified = false,
\* verify_user returns a record with email_verified false when
\* require_email_verified is off and raises EmailNotVerifiedError, not the
\* generic AuthenticationError, when it is on; it is on when the call loads
\* the configuration from an environment that does not supply the setting.
C14_EmailPolicy ==
    [][ (VerifyStep /\ ValidUnverified') =>
            /\ IF Get(_config').require_email_verified
               THEN last'.result.kind = EmailNotVerifiedError
               ELSE /\ last'.result.kind = "record"
                    /\ last'.result.record.email_verified = FALSE
            /\ (IsNone(_config) /\ IsNone(env.require_email_verified)) =>
                    last'.result.kind = EmailNotVerifiedError ]_vars

\* C14: the token was refused with EmailNotVerifiedError under a
\* configuration loaded without the setting.
C14_UnverifiedRefusedByDefault ==
    /\ ValidUnverified
    /\ IsNone(env.require_email_verified)
    /\ last.result.kind = EmailNotVerifiedError

\* C14: the token was accepted with the policy off.
C14_UnverifiedAcceptedWhenOff ==
    /\ ValidUnverified
    /\ ~Cfg.require_email_verified
    /\ Returned /\ last.result.record.email_verified = FALSE

----------------------------------------------------------------------------
(* C15 *)

\* No configuration is loaded and none can be loaded from the environment.
ConfigUnresolvable == IsNone(_config) /\ IsNone(AuthConfig(env))

\* The token given to the step is None, not a string, or the empty string.
EmptyTokenStep == VerifyStep /\ last'.token.form \in {"not_str", "empty"}

\* C15: an empty, None or non-string token fails with AuthenticationError
\* without the configuration being loaded, also when none is resolvable; a
\* non-empty string token fails with ConfigurationError when the
\* configuration is unresolvable, whatever its content, without a key
\* fetch and without a change of the key cache.
C15_EarlyRejectionsInOrder ==
    [][ /\ EmptyTokenStep =>
                /\ last'.result.kind = AuthenticationError
                /\ last'.result.msg = "Token must be a non-empty string"
                /\ _config' = _config
                /\ last'.fetches = 0 /\ _key_cache' = _key_cache
        /\ (VerifyStep /\ ~EmptyTokenStep /\ ConfigUnresolvable) =>
                /\ last'.result.kind = ConfigurationError
                /\ _config' = None
                /\ last'.fetches = 0 /\ _key_cache' = _key_cache ]_vars

\* C15: a string that is not a JWT was refused with ConfigurationError.
C15_ConfigurationErrorBeforeHeader ==
    /\ Called /\ last.token.form = "garbage"
    /\ last.result.kind = ConfigurationError

\* C15: an empty token was refused with AuthenticationError while no
\* configuration was resolvable.
C15_EmptyTokenWithoutConfiguration ==
    /\ Called /\ last.token.form = "empty"
    /\ ConfigUnresolvable
    /\ last.result.kind = AuthenticationError

----------------------------------------------------------------------------
(* C16 *)

\* The token given to the step has no decodable header, or a header
\* without a kid.
NoKidStep ==
    /\ VerifyStep
    /\ last'.token.form # "jwt" \/ ~Truthy(last'.token.kid)

\* C16: a token whose header is missing, malformed or without a kid makes
\* no key fetch and leaves the key cache, key set and timestamp, as it
\* was; the configuration being resolvable, it fails with
\* AuthenticationError.
C16_NoKidFailsBeforeKeyResolution ==
    [][ NoKidStep =>
            /\ last'.fetches = 0
            /\ _key_cache' = _key_cache
            /\ last'.keyAge = -1
            /\ ~ConfigUnresolvable => last'.result.kind = AuthenticationError ]_vars

\* C16: a token without a kid was refused while the cache held a key set.
C16_NoKidRefused ==
    /\ Called /\ last.token.form = "jwt" /\ ~Truthy(last.token.kid)
    /\ ~IsNone(_key_cache)
    /\ Msg = "Token header missing 'kid' (key ID)"

----------------------------------------------------------------------------
(* C17 *)

\* The last call decoded a token whose signature, issuer, audience and
\* timing are valid.
PassedDecode ==
    /\ Decoded /\ SignatureVerifies
    /\ \A r \in {"timing", "expiry", "issuer", "audience"} : ~Violated(r)

\* C17: for such a token, a missing or empty sub fails with the
\* AuthenticationError about the subject; otherwise a missing or empty
\* email fails with the AuthenticationError about the email, never with
\* EmailNotVerifiedError, whatever email_verified says.
C17_SubjectThenEmailBeforePolicy ==
    PassedDecode =>
        /\ ~Truthy(last.token.sub) =>
                /\ last.result.kind = AuthenticationError
                /\ Msg = "Token missing 'sub' (subject/user_id) claim"
        /\ (Truthy(last.token.sub) /\ ~Truthy(last.token.email)) =>
                /\ last.result.kind = AuthenticationError
                /\ Msg = "Token missing 'email' claim"

\* C17: a token with no email and email_verified false was refused as
\* missing its email while the policy was on.
C17_MissingEmailNotPolicy ==
    /\ PassedDecode
    /\ IsNone(last.token.email) /\ last.token.email_verified = Some(FALSE)
    /\ Cfg.require_email_verified
    /\ Msg = "Token missing 'email' claim"

----------------------------------------------------------------------------
(* C18 *)

\* How many of the three credential inputs the environment e supplies.
CredentialCount(e) ==
    Cardinality({f \in {"firebase_credentials_path", "firebase_credentials_json",
                        "google_project_id"} : Truthy(e[f])})

\* The inline credentials of e, when supplied, are valid JSON.
InlineJsonValid(e) ==
    IsNone(e.firebase_credentials_json)
        \/ Get(e.firebase_credentials_json) \in ValidJsonStrings

\* The step is a get_config call that constructs the configuration.
LoadStep == last'.op = "get_config" /\ IsNone(_config)

\* The step constructed a configuration / failed with ConfigurationError.
Loaded == ~IsNone(_config') /\ last'.result.kind = "config"

LoadFailed == IsNone(_config') /\ last'.result.kind = ConfigurationError

\* C18 as stated: construction succeeds only when exactly one of the three
\* credential inputs is supplied, and fails with ConfigurationError with
\* none, with more than one, and with inline credentials that are not JSON.
C18_ExactlyOneCredential ==
    [][ LoadStep =>
            IF CredentialCount(env) = 1 /\ InlineJsonValid(env)
            THEN Loaded ELSE LoadFailed ]_vars

\* C18, amended: construction succeeds when at least one of the three
\* credential inputs is supplied, several being accepted together, and
\* fails with ConfigurationError with none and with inline credentials
\* that are not JSON.
C18_AtLeastOneCredential ==
    [][ LoadStep =>
            IF CredentialCount(env) >= 1 /\ InlineJsonValid(env)
            THEN Loaded ELSE LoadFailed ]_vars

\* C18: a configuration was constructed from two credential inputs.
C18_LoadedWithTwoCredentials ==
    /\ last.op = "get_config" /\ last.result.kind = "config"
    /\ CredentialCount(env) = 2
    /\ _config = AuthConfig(env)

----------------------------------------------------------------------------
(* C19 *)

\* C19: a successfully loaded configuration provides every attribute
\* verify_user and get_google_public_keys read from it: issuer, audience,
\* key-cache TTL, clock leeway, key endpoint and the email-verification
\* flag.
C19_ConfigProvidesWhatVerificationReads ==
    ~IsNone(_config) => \A a \in AuthReadAttrs : HasAttr(authConfigAttrs, a)

\* C19: verify_user loaded the configuration and ended in AttributeError.
C19_AttributeErrorRaised ==
    /\ Called /\ ~IsNone(_config)
    /\ last.result.kind = "AttributeError"
    /\ Msg = "jwks_cache_ttl"

----------------------------------------------------------------------------
(* C20 *)

\* The step is a get_config call.
GetConfigStep == last'.op = "get_config"

\* C20: a get_config call made while a configuration is held returns that
\* same configuration, whatever the environment has become; one made while
\* none is held constructs it from the environment, and when construction
\* fails raises ConfigurationError and holds nothing, so that the next call
\* constructs again; a held configuration changes only by being reset.
C20_ConfigurationIsSingleton ==
    [][ /\ (GetConfigStep /\ ~IsNone(_config)) =>
                /\ _config' = _config
                /\ last'.result.kind = "config"
        /\ (GetConfigStep /\ IsNone(_config)) =>
                /\ _config' = AuthConfig(env)
                /\ last'.result.kind = IF IsNone(AuthConfig(env))
                                      THEN ConfigurationError ELSE "config"
        /\ (~IsNone(_config) /\ _config' # _config) =>
                IsNone(_config') /\ last' = NoCall ]_vars

\* C20: get_config returned the held configuration although the
\* environment would now yield another one.
C20_SnapshotKept ==
    /\ last.op = "get_config" /\ last.result.kind = "config"
    /\ ~IsNone(AuthConfig(env))
    /\ _config # AuthConfig(env)

----------------------------------------------------------------------------
(* Concurrent calls *)

\* The key mappings a complete conversion of one response can give.
ResponseKeySets == {ParseCerts(p) : p \in ThreadProviderSets}

\* Thread th holds a key set in its local public_keys.
HoldsKeys(th) == ~IsNone(threads[th].keys)

\* The step stores the keys thread th built, stamped with the time of the store.
StoresOwnFetch(th) ==
    /\ At(th, "gk_store")
    /\ _key_cache' = Some([keys |-> Get(threads[th].keys), timestamp |-> now])

\* C21: under every interleaving, each key set a caller holds is the whole
\* mapping built from one response, the cache holds nothing or one such
\* mapping, and the cache changes only by being cleared or by one thread
\* storing the mapping it built together with the time of that store.
C21_AtomicCacheReplace ==
    /\ [](\A th \in ThreadIds : HoldsKeys(th) => Get(threads[th].keys) \in ResponseKeySets)
    /\ [](~IsNone(_key_cache) => Get(_key_cache).keys \in ResponseKeySets)
    /\ [][ _key_cache' # _key_cache =>
             \/ _key_cache' = None
             \/ \E th \in ThreadIds : StoresOwnFetch(th) ]_vars

\* C21: a reader still verifies against the old set while the cache already
\* holds the set of a later refresh.
C21_ReaderKeepsOldSet ==
    \E th \in ThreadIds :
        /\ At(th, "v_decode")
        /\ Get(threads[th].keys) = ParseCerts([k \in {"k1"} |-> "A"])
        /\ ~IsNone(_key_cache)
        /\ Get(_key_cache).keys = ParseCerts([k \in {"k2"} |-> "B"])
        /\ Get(_key_cache).timestamp = 1

\* C22: no call ends because another call cleared or replaced the cache
\* while it was between checking for the entry and reading it.
C22_NoCallFailsOnConcurrentClear ==
    \A th \in ThreadIds : At(th, "done") => threads[th].result.kind # "KeyError"

\* C22: a verify_user call with a valid token ended in KeyError.
C22_KeyErrorFromConcurrentClear ==
    \E th \in ThreadIds :
        /\ At(th, "done")
        /\ threads[th].op = "verify_user"
        /\ threads[th].token = ValidToken("k1", "A")
        /\ threads[th].result.kind = "KeyError"

\* C23: get_config, when it returns, returns a configuration and not None.
C23_GetConfigNeverReturnsNone ==
    \A th \in ThreadIds :
        /\ At(th, "done") /\ threads[th].op = "get_config"
           /\ threads[th].result.kind = "config" => ~IsNone(threads[th].config)
        /\ threads[th].op = "verify_user" /\ threads[th].pc = "v_header"
           => ~IsNone(threads[th].config)

\* C23: a verify_user call that was handed None for its configuration ends
\* in an AttributeError on NoneType.
C23_VerifyFailsOnAbsentConfig ==
    \E th \in ThreadIds :
        /\ At(th, "done")
        /\ threads[th].op = "verify_user"
        /\ threads[th].result = Raise("AttributeError", "NoneType")

\* The place of a statement within get_config and get_google_public_keys.
StatementOrder(pc) ==
    CASE pc = "gc_check" -> 1 [] pc = "gc_return" -> 2
      [] pc = "gk_ttl" -> 3 [] pc = "gk_check" -> 4 [] pc = "gk_read" -> 5
      [] pc = "gk_fresh" -> 6 [] pc = "gk_fetch" -> 7 [] pc = "gk_store" -> 8
      [] OTHER -> 0

\* The place of a position in the text of verify_user: input check, config
\* load (line 158), header (161-165), first key resolution (168), lookup (170),
\* clear (172), second key resolution (173), lookup (175), verification and
\* extraction (181-217), the end of the call.
Rank(s) ==
    CASE s.pc = "idle" -> 0
      [] s.pc = "v_header" -> 3
      [] s.pc = "v_clear" -> 20
      [] s.pc = "v_decode" -> 40
      [] s.pc = "done" -> 50
      [] s.pc = "v_lookup" -> IF s.site = "first" THEN 19 ELSE 39
      [] OTHER -> StatementOrder(s.pc) +
                  (CASE s.site = "verify" -> 0 [] s.site = "first" -> 10
                     [] s.site = "retry" -> 30 [] OTHER -> 0)

\* The stage of verify_user a position belongs to: 1 input check, 2 config
\* load, 3 header decode, 4 key resolution, 5 signature, claims, subject,
\* email and email policy, 6 the call has ended.
Stage(s) ==
    CASE s.pc = "idle" -> 1
      [] s.pc = "done" -> 6
      [] s.pc = "v_header" -> 3
      [] s.pc = "v_decode" -> 5
      [] s.site = "verify" -> 2
      [] OTHER -> 4

\* Thread th takes a step of a verify_user call.
VerifyStatement(th) ==
    /\ th \in DOMAIN threads
    /\ threads'[th] # threads[th]
    /\ threads'[th].op = "verify_user"

\* C27: every statement of a verify_user call moves forward in the text of
\* the function and never to an earlier stage, the key set is fetched a
\* second time only through the clear after a miss of the first lookup, and
\* every call that has begun ends.
C27_LinearAndTerminating ==
    /\ [][ \A th \in ThreadIds : VerifyStatement(th) =>
              /\ Rank(threads'[th]) > Rank(threads[th])
              /\ Stage(threads'[th]) >= Stage(threads[th])
              /\ threads'[th].site = "retry" /\ threads[th].site # "retry"
                 => At(th, "v_clear") /\ threads[th].site = "first" ]_vars
    /\ (Running(1) ~> At(1, "done"))

\* C27: a call ended with the record after the one clear-and-refetch.
C27_RecordAfterSingleRefetch ==
    /\ At(1, "done")
    /\ threads[1].op = "verify_user"
    /\ threads[1].site = "retry"
    /\ threads[1].result.kind = "record"

----------------------------------------------------------------------------
(* C24 *)

\* The ids of the entries of a response that are malformed.
MalformedIds(certs) == {k \in DOMAIN certs : certs[k] = Malformed}

\* The step is a call that fetched, with success, a response in which
\* malformed entries stand next to well-formed ones.
MixedFetchStep ==
    /\ last'.op \in {"verify_user", "get_google_public_keys"}
    /\ last'.fetches >= 1
    /\ endpoint = "ok"
    /\ MalformedIds(published) # {}
    /\ MalformedIds(published) # DOMAIN published

\* C24: a refresh whose response holds malformed entries next to well-formed
\* ones does not fail: the cache then holds, stamped now, exactly the
\* well-formed entries and none of the malformed ids, a direct caller is
\* handed that set, and a token that is acceptable under a key of the set
\* is verified and its record returned.
C24_MalformedEntriesSkipped ==
    [][ MixedFetchStep =>
        /\ last'.result.msg # FetchFailedMsg
        /\ ~IsNone(_key_cache')
        /\ Get(_key_cache').timestamp = now
        /\ DOMAIN Get(_key_cache').keys = DOMAIN published \ MalformedIds(published)
        /\ \A k \in DOMAIN Get(_key_cache').keys :
               Get(_key_cache').keys[k] = published[k]
        /\ last'.op = "get_google_public_keys"
           => last'.keys = Some(Get(_key_cache').keys)
        /\ (/\ VerifyStep
            /\ Truthy(last'.token.kid)
            /\ Get(last'.token.kid) \in DOMAIN published \ MalformedIds(published)
            /\ Acceptable(last'.token, Get(_config'),
                          [k \in DOMAIN published \ MalformedIds(published) |->
                              published[k]], now))
           => last'.result.kind = "record" ]_vars

\* C24: a token with kid k1 was verified against a set fetched from a
\* response whose entry k2 is malformed.
C24_VerifiedDespiteMalformedEntry ==
    /\ Returned /\ last.fetches = 1
    /\ last.token.kid = Some("k1")
    /\ MalformedIds(published) = {"k2"}
    /\ DOMAIN Get(_key_cache).keys = {"k1"}

----------------------------------------------------------------------------
(* C25 *)

\* The step loads the configuration with the setting spelled s.
LoadsFlag(s) == LoadStep /\ env.require_email_verified = Some(s)

\* C25: parse_boolean turns "True", "true", "1", "yes" and "on" in any case
\* into true and "False", "false", "0" and "no" into false, and gives a
\* bool back unchanged; a configuration loaded from the environment carries
\* the flag so parsed.
C25_BooleanSpellings ==
    /\ [](last.op = "parse_boolean" =>
            /\ last.input.type = "bool" => last.output = last.input.bool
            /\ last.input.type = "str" /\ last.input.str \in TrueStrings
               => last.output = TRUE
            /\ last.input.type = "str" /\ last.input.str \in FalseStrings
               => last.output = FALSE)
    /\ [][ /\ \A s \in TrueStrings : LoadsFlag(s) =>
                Loaded /\ Get(_config').require_email_verified = TRUE
           /\ \A s \in FalseStrings : LoadsFlag(s) =>
                Loaded /\ Get(_config').require_email_verified = FALSE ]_vars

\* C25: the configuration was loaded with the flag off from the spelling "no".
C25_LoadedOffFromNo ==
    /\ last.op = "get_config"
    /\ env.require_email_verified = Some("no")
    /\ ~IsNone(_config) /\ Get(_config).require_email_verified = FALSE

\* C25: the validator was given the bool false and gave it back.
C25_BoolKept ==
    /\ last.op = "parse_boolean"
    /\ last.input = BoolValue(FALSE)
    /\ last.output = FALSE

----------------------------------------------------------------------------
(* C26 *)

\* The credential source the environment configures, when it is exactly one.
CredentialMode ==
    CASE Truthy(env.firebase_credentials_path) -> "file"
      [] Truthy(env.firebase_credentials_json) -> "inline"
      [] OTHER -> "project"

\* C26: in each of the three credential modes verify_user ends in a record
\* or in an error of the taxonomy.
C26_SameContractInEveryMode ==
    \A mode \in {"file", "inline", "project"} :
        Called /\ CredentialMode = mode
        => last.result.kind \in {"record", AuthenticationError,
                                 EmailNotVerifiedError, ConfigurationError}

\* C26: with a credentials file configured, verify_user ended in an
\* AttributeError for the valid token.
C26_FileModeAttributeError ==
    /\ Called /\ CredentialMode = "file"
    /\ last.token = ValidToken("k1", "A")
    /\ last.result.kind = "AttributeError"

----------------------------------------------------------------------------
(* C28 *)

\* The step is a verify_user call that ends in the key-fetch failure.
VerifyFetchFailedStep ==
    /\ VerifyStep
    /\ last'.result.kind = AuthenticationError
    /\ last'.result.msg = FetchFailedMsg

\* C28: a verify_user call that ends in a key-fetch failure leaves the key
\* cache, key set and timestamp, exactly as it was before the call.
C28_FailedFetchLeavesCacheUntouched ==
    [][ VerifyFetchFailedStep => _key_cache' = _key_cache ]_vars

\* C28: a token with an unknown kid, presented while the endpoint was
\* unreachable, evicted a key set that had not expired, although the
\* provider still publishes the keys of that set.
C28_UnexpiredSetEvicted ==
    /\ Called /\ last.cacheAtStart = "fresh"
    /\ last.result.kind = AuthenticationError /\ Msg = FetchFailedMsg
    /\ endpoint = "http_error"
    /\ Truthy(last.token.kid)
    /\ Get(last.token.kid) \notin DOMAIN ParseCerts(published)
    /\ IsNone(_key_cache)

----------------------------------------------------------------------------
(* C29 *)

\* The step is a call that fetched, from an endpoint that answers, a
\* response none of whose entries is usable.
ZeroKeyFetchStep ==
    /\ last'.op \in {"verify_user", "get_google_public_keys"}
    /\ last'.fetches >= 1
    /\ endpoint = "ok"
    /\ DOMAIN published \ MalformedIds(published) = {}

\* C29: a refresh whose response has no usable key raises nothing:
\* get_google_public_keys returns the empty mapping and stores it stamped
\* now, and verify_user, for a token with a kid, reports key-not-found and
\* not the fetch failure, after one fetch when the cache was unexpired at
\* the start and after two otherwise.
C29_ZeroKeysIsNotAnError ==
    [][ ZeroKeyFetchStep =>
        /\ _key_cache' = Some([keys |-> EmptyKeys, timestamp |-> now])
        /\ last'.result.msg # FetchFailedMsg
        /\ last'.op = "get_google_public_keys"
           => last'.result.kind = "keys" /\ last'.keys = Some(EmptyKeys)
        /\ VerifyStep
           => /\ last'.result.kind = AuthenticationError
              /\ last'.result.msg = KeyNotFoundMsg
              /\ last'.fetches = IF last'.cacheAtStart = "fresh" THEN 1 ELSE 2 ]_vars

\* C29: get_google_public_keys had stored the empty mapping as an unexpired
\* entry, and verify_user then reported key-not-found after one more fetch.
C29_KeyNotFoundAfterEmptyRefresh ==
    /\ Called /\ last.cacheAtStart = "fresh" /\ last.fetches = 1
    /\ last.result.kind = AuthenticationError /\ Msg = KeyNotFoundMsg
    /\ published \in ZeroKeyResponses
    /\ _key_cache = Some([keys |-> EmptyKeys, timestamp |-> now])

----------------------------------------------------------------------------
(* C30 *)

\* The token of the last call carries no email_verified claim at all.
NoEmailVerifiedClaim ==
    IsNone(last.token.email_verified) /\ IsNone(last.token.email_verified_text)

\* C30: in every returned record uid and email are non-empty and
\* email_verified is a boolean, which is true when require_email_verified
\* is on and false when the token carries no email_verified claim; a token
\* without the claim is refused with EmailNotVerifiedError when the policy
\* is on.
C30_RecordWellTyped ==
    /\ Returned =>
        /\ last.result.record.uid # "" /\ last.result.record.email # ""
        /\ IsNone(last.result.record.email_verified_text)
        /\ Cfg.require_email_verified => last.result.record.email_verified = TRUE
        /\ NoEmailVerifiedClaim => last.result.record.email_verified = FALSE
    /\ (/\ Called /\ PassedDecode /\ NoEmailVerifiedClaim
        /\ Truthy(last.token.sub) /\ Truthy(last.token.email)
        /\ Cfg.require_email_verified)
       => last.result.kind = EmailNotVerifiedError

\* C30, for the tokens whose email_verified claim is a boolean or absent.
C30_BooleanClaimsWellTyped ==
    IsNone(last.token.email_verified_text) => C30_RecordWellTyped

\* C30: with the policy on, a record was returned for a token whose
\* email_verified claim is the string "false", and the record carries
\* that string.
C30_StringClaimSatisfiesPolicy ==
    /\ Returned /\ Cfg.require_email_verified
    /\ last.token.email_verified_text = Some("false")
    /\ last.result.record.email_verified_text = Some("false")

----------------------------------------------------------------------------
(* C31 *)

\* Thread th is inside a key resolution of a verify_user call, holding the
\* configuration get_google_public_keys obtained for the TTL next to the one
\* verify_user obtained for issuer, audience, leeway and the email flag.
ResolvingKeys(th) ==
    /\ th \in DOMAIN threads
    /\ threads[th].op = "verify_user"
    /\ threads[th].pc \in {"gk_ttl", "gk_check", "gk_read", "gk_fresh",
                           "gk_fetch", "gk_store"}
    /\ ~IsNone(threads[th].config) /\ ~IsNone(threads[th].kconfig)

\* C31: within one verify_user call the configuration the TTL is read from
\* is the one issuer, audience, leeway and the email flag are read from.
C31_SingleSnapshotPerCall ==
    ResolvingKeys(1) => threads[1].kconfig = threads[1].config

\* C31: a call tests the freshness of the cache with the TTL of a
\* configuration that requires email verification, while it holds, for the
\* email policy, a configuration that does not.
C31_TtlFromAnotherSnapshot ==
    /\ ResolvingKeys(1) /\ threads[1].pc = "gk_fresh"
    /\ Get(threads[1].kconfig).require_email_verified
    /\ ~Get(threads[1].config).require_email_verified

----------------------------------------------------------------------------
(* C32 *)

\* s is one of the spellings of false: false, 0, no, off, in any case.
RecognisedFalse(s) == Lower(s) \in {"false", "0", "no", "off"}

\* C32: a configuration loaded with the setting spelled otherwise than as
\* a recognised false has the policy enabled, or the load fails.
C32_PolicyOffOnlyByExplicitFalse ==
    [][ \A s \in FlagStrings :
            LoadsFlag(s) /\ ~RecognisedFalse(s)
            => LoadFailed \/ Get(_config').require_email_verified ]_vars

\* C32: the configuration was loaded, with the policy off, from the
\* misspelling "ture".
C32_MisspellingTurnsPolicyOff ==
    /\ last.op = "get_config" /\ last.result.kind = "config"
    /\ env.require_email_verified = Some("ture")
    /\ ~IsNone(_config) /\ ~Get(_config).require_email_verified

----------------------------------------------------------------------------
(* C33 *)

\* The step is a request handled by get_current_user.
AdapterStep == last'.op = "get_current_user"

\* The outcome of verify_user in that request was an exception of kind k.
Outcome(k) == last'.verified /\ last'.result.kind = k

\* C33: get_current_user answers EmailNotVerifiedError with 403 and never
\* with 401, every other AuthenticationError with 401, ConfigurationError
\* with 500, and a header that does not start with "Bearer " with 401
\* without calling verify_user: the configuration and the key cache are
\* left as they were.
C33_TransportClasses ==
    [][ AdapterStep =>
        /\ Outcome(EmailNotVerifiedError)
           => last'.response = HttpResponse(403, "HTTPException")
        /\ Outcome(AuthenticationError)
           => last'.response = HttpResponse(401, "HTTPException")
        /\ Outcome(ConfigurationError)
           => last'.response = HttpResponse(500, "HTTPException")
        /\ last'.header.scheme # "Bearer "
           => /\ last'.response = HttpResponse(401, "HTTPException")
              /\ ~last'.verified
              /\ _config' = _config /\ _key_cache' = _key_cache
        /\ last'.header.scheme = "Bearer " => last'.verified ]_vars

\* C33: a request whose token has an unverified email was answered 403.
C33_UnverifiedEmailForbidden ==
    /\ last.op = "get_current_user"
    /\ last.result.kind = EmailNotVerifiedError
    /\ last.response.status = 403

\* C33: a request without a Bearer header was answered 401 while the
\* configuration could not have been loaded.
C33_NoBearerUnauthorized ==
    /\ last.op = "get_current_user"
    /\ last.header.scheme = "Basic "
    /\ last.response.status = 401
    /\ env = EnvUnset /\ IsNone(_config)

====
